---- MODULE Spec2Model ----
(***************************************************************************)
(* The Task Execution Engine of agent/utils/cost_efficient_ops_new.py:     *)
(* the TaskRecord Store (TaskMetadataStore), the Task Executor             *)
(* (TaskExecutorAgent), Session Memory (TaskMemory) and the Structured     *)
(* Task Processor (StructuredTaskProcessor with its LLMPlannerAgent), and  *)
(* the Task Classifier and Cost-Aware Dispatcher of                        *)
(* agent/utils/cost_optimizer.py (parse_task_type, CostTracker and         *)
(* CostOptimizedExecutor), as a state machine over the tasks/ and memory/  *)
(* directories, the file system the targets resolve into, and the call     *)
(* stack of the one thread that runs the engine.                           *)
(*                                                                         *)
(* A Python dict is a function from its keys to its values.  A str is a    *)
(* sequence of symbols.  The value returned by a call is left in rv when   *)
(* the call's frame is popped.                                             *)
(***************************************************************************)
EXTENDS Integers, Sequences, FiniteSets, TLC

VARIABLES
    tasks,      \* tasks/<id>.json for every id: the content of the file
    files,      \* every other file the targets resolve to: location -> content
    dirs,       \* the directories that exist
    stack,      \* call stack of the engine's thread, innermost frame first
    rv,         \* the value the last finished call returned
    now,        \* datetime.now()
    uuids,      \* how many ids uuid.uuid4() has produced
    faults,     \* how many I/O errors the environment has raised
    ops,        \* how many public operations the caller has started
    call,       \* the public operation running or last finished, as it was called
    seen,       \* what the concurrent get_task observed, once it has run
    run,        \* the execute_task call running or last finished (history)
    ever,       \* ids store_task was ever called for (history)
    statusLog,  \* per id, the status values persisted so far, in order (history)
    sessions,   \* memory/session_<id>.json for every session id: the content of the file
    plans,      \* memory/reusable_plans/<id>.json for every plan id
    appended,   \* per session, the entries stored since the last rollback (history)
    llm_planner, \* the processor's planner: whether a generator was configured
    stats,      \* the processor's counters
    llm_calls,  \* how many times the external generator was called (history)
    cost_tracker, \* the CostTracker of the CostOptimizedExecutor
    minimize_ai,  \* config["cost_optimization"]["minimize_ai_usage"]
    use_templates, \* config["cost_optimization"]["use_templates_when_possible"]
    project,    \* the files of project_dir the CostOptimizedExecutor writes
    writers,    \* the store_execution call of each of two processes that share memory/
    raced       \* whether the calls of the two processes both read before either wrote (history)

\* what TaskMemory owns, and what StructuredTaskProcessor owns
memVars == <<sessions, plans, appended>>
procVars == <<llm_planner, stats, llm_calls>>
\* what CostOptimizedExecutor owns
costVars == <<cost_tracker, minimize_ai, use_templates, project>>
\* the processes that call store_execution side by side
writerVars == <<writers, raced>>

vars == <<tasks, files, dirs, stack, rv, now, uuids, faults, ops, call, seen, run, ever, statusLog,
          memVars, procVars, costVars, writerVars>>

----------------------------------------------------------------------------
(* Bounds of the model *)

MaxOps == 3         \* public operations per behaviour
MaxUuid == 2        \* ids uuid4 hands out
MaxFaults == 1      \* I/O errors raised by the environment
MaxClock == 1       \* ticks of the clock
MaxBatch == 2       \* records in one batch
MaxMemOps == 7      \* public operations per behaviour when TaskMemory is used
MaxWords == 3       \* words in a description or a request

----------------------------------------------------------------------------
(* Python dicts *)

Has(d, k) == k \in DOMAIN d

Put(d, k, v) == [f \in (DOMAIN d) \cup {k} |-> IF f = k THEN v ELSE d[f]]

\* d.get(k, default)
GetOr(d, k, default) == IF Has(d, k) THEN d[k] ELSE default

\* d with the entries of e set one by one (for key, value in e.items(): d[key] = value)
Merge(d, e) == [f \in (DOMAIN d) \cup (DOMAIN e) |-> IF f \in DOMAIN e THEN e[f] ELSE d[f]]

Without(d, ks) == [f \in (DOMAIN d) \ ks |-> d[f]]

EmptyDict == Without([x |-> 0], {"x"})

\* Python's None, and a value that is there
None == <<>>
Some(v) == <<v>>

----------------------------------------------------------------------------
(* Paths: a path is the sequence of its components; "/" first marks an      *)
(* absolute path.                                                           *)

BaseDir == <<"/", "proj">>

IsAbsolute(p) == p # <<>> /\ p[1] = "/"

\* pathlib: base / target.  An absolute target replaces the base.
JoinPath(base, target) == IF IsAbsolute(target) THEN target ELSE base \o target

\* What the operating system opens: ".." steps to the parent ("/.." is "/").
RECURSIVE ResolveFrom(_, _)
ResolveFrom(done, rest) ==
    IF rest = <<>> THEN done
    ELSE IF Head(rest) = ".."
         THEN ResolveFrom(IF Len(done) > 1 THEN SubSeq(done, 1, Len(done) - 1) ELSE done,
                          Tail(rest))
         ELSE ResolveFrom(Append(done, Head(rest)), Tail(rest))

Resolve(p) == ResolveFrom(<<>>, p)

\* The file a task's target names: self.base_dir / task["target"], opened.
TargetPath(target) == Resolve(JoinPath(BaseDir, target))

\* self.tasks_dir / f"{task_id}.json": the file of a record; the component
\* that is the id stands for the name <id>.json
RecordTarget(id) == <<"tasks", id>>
TaskFile(id) == BaseDir \o RecordTarget(id)

IsPrefix(p, q) == Len(p) <= Len(q) /\ SubSeq(q, 1, Len(p)) = p

InsideRoot(loc) == IsPrefix(BaseDir, loc) /\ loc # BaseDir

\* target_path.parent and its parents
Parents(loc) == {SubSeq(loc, 1, n) : n \in 1..(Len(loc) - 1)}

----------------------------------------------------------------------------
(* Files.  A file is absent, or holds a text (a sequence of symbols).  A    *)
(* task file is absent, holds a complete JSON document, or holds what       *)
(* open(.., 'w') and an unfinished json.dump leave: a truncated document.   *)

Absent == [kind |-> "absent"]
Partial == [kind |-> "partial"]
JsonDoc(d) == [kind |-> "json", doc |-> d]
Text(s) == [kind |-> "text", text |-> s]

\* json.dump(task_metadata, f): the document that holds exactly the dict
JsonDump(d) == JsonDoc(d)

\* json.load(f) of a task file: the dict, or an exception (None here) when the
\* file does not hold a complete document
JsonLoad(file) == IF file.kind = "json" THEN Some(file.doc) ELSE None

----------------------------------------------------------------------------
(* Task ids, and the inputs the callers draw from.  The values of a record  *)
(* are JSON values (strings, numbers, mappings with string keys), the       *)
(* values json.dump accepts and json.load gives back unchanged.             *)

CallerIds == {<<"id", 1>>}
UuidIds == {<<"uuid", n>> : n \in 1..MaxUuid}
TaskIds == CallerIds \cup UuidIds

\* str(uuid.uuid4()): an id no earlier call produced and no caller chose
Uuid4 == <<"uuid", uuids + 1>>

Str(s) == [t |-> "str", v |-> s]
Dict(kv) == [t |-> "dict", v |-> kv]

IndexHtml == <<"index.html">>
UpTxt == <<"..", "up.txt">>
EtcX == <<"/", "etc", "x">>
NotesTxt == <<"notes.txt">>
DataJson == <<"data.json">>

Targets == {IndexHtml, UpTxt, EtcX, NotesTxt, DataJson}
Locations == {TargetPath(t) : t \in Targets}

Statuses == <<"pending", "executing", "completed", "failed">>

\* Session ids and plan ids are strings
SessionIds == {"s1", "s2"}
PlanIds == {"p1", "p2"}

\* self.memory_dir / f"session_{session_id}.json" and
\* self.plans_dir / f"{plan_id}.json"
SessionFile(session_id) == <<"memory", "session_", session_id, ".json">>
PlanFile(plan_id) == <<"memory", "reusable_plans", plan_id, ".json">>

\* A value json.dump cannot write, such as a datetime
DateTime(s) == [t |-> "datetime", v |-> s]

\* self.stats of the processor
NoRequests == [total_requests |-> 0, llm_requests |-> 0, rule_based_requests |-> 0]

NewTask(type, target, content) ==
    [type |-> type, target |-> target, content |-> content, status |-> "pending"]

----------------------------------------------------------------------------
(* The call stack.  Head(stack) is the running call.                        *)

Idle == stack = <<>>
Top == Head(stack)
Running(fn, pc) == stack # <<>> /\ Top.fn = fn /\ Top.pc = pc

\* The running call continues at pc with its locals changed to f.
Goto(f) == <<f>> \o Tail(stack)

\* An exception the environment raises (disk full, permission denied): str(e)
OSError == "OSError"
CanFail == faults < MaxFaults

----------------------------------------------------------------------------
(* TaskMetadataStore *)

\* get_task(task_id): None when the file is absent or does not parse
GetTask(id) == IF tasks[id].kind = "absent" THEN None ELSE JsonLoad(tasks[id])

\* store_task that gives every record a fresh id, its own id or not
StoreTaskFrameFreshId(task_metadata) ==
    LET task_id == Uuid4
        rec == Put(Put(task_metadata, "task_id", task_id), "stored_at", now)
    IN  [fn |-> "store_task", pc |-> "open", task_id |-> task_id, rec |-> rec,
         prev |-> GetTask(task_id)]

\* store_task, lines 35-39: the id is the record's own or a fresh uuid, the
\* record is stamped, and the call is about to open tasks/<id>.json.
StoreTaskFrame(task_metadata) ==
    LET task_id == GetOr(task_metadata, "task_id", Uuid4)
        rec == Put(Put(task_metadata, "task_id", task_id), "stored_at", now)
    IN  [fn |-> "store_task", pc |-> "open", task_id |-> task_id, rec |-> rec,
         prev |-> GetTask(task_id)]

UuidsAfterStore(task_metadata) == IF Has(task_metadata, "task_id") THEN uuids ELSE uuids + 1

StoreSuccess(task_id) == [success |-> TRUE, task_id |-> task_id]
Failure(error) == [success |-> FALSE, error |-> error]

LogStatus(id, rec) == [statusLog EXCEPT ![id] = Append(@, GetOr(rec, "status", "(none)"))]

\* open(task_file, 'w'): the file exists and is empty
StoreOpen ==
    /\ Running("store_task", "open")
    /\ tasks' = [tasks EXCEPT ![Top.task_id] = Partial]
    /\ stack' = Goto([Top EXCEPT !.pc = "dump"])
    /\ UNCHANGED <<memVars, procVars, costVars, writerVars>>
    /\ UNCHANGED <<files, dirs, rv, now, uuids, faults, ops, call, seen, run, ever, statusLog>>

\* open raises: the file is as it was, store_task returns the failure
StoreOpenFails ==
    /\ Running("store_task", "open")
    /\ CanFail
    /\ faults' = faults + 1
    /\ stack' = Tail(stack)
    /\ rv' = Failure(OSError)
    /\ UNCHANGED <<memVars, procVars, costVars, writerVars>>
    /\ UNCHANGED <<tasks, files, dirs, now, uuids, ops, call, seen, run, ever, statusLog>>

\* json.dump writes the whole document and the file is closed
StoreDump ==
    /\ Running("store_task", "dump")
    /\ tasks' = [tasks EXCEPT ![Top.task_id] = JsonDump(Top.rec)]
    /\ statusLog' = LogStatus(Top.task_id, Top.rec)
    /\ stack' = Tail(stack)
    /\ rv' = StoreSuccess(Top.task_id)
    /\ UNCHANGED <<memVars, procVars, costVars, writerVars>>
    /\ UNCHANGED <<files, dirs, now, uuids, faults, ops, call, seen, run, ever>>

\* json.dump raises part way: the file keeps the truncated document
StoreDumpFails ==
    /\ Running("store_task", "dump")
    /\ CanFail
    /\ faults' = faults + 1
    /\ stack' = Tail(stack)
    /\ rv' = Failure(OSError)
    /\ UNCHANGED <<memVars, procVars, costVars, writerVars>>
    /\ UNCHANGED <<tasks, files, dirs, now, uuids, ops, call, seen, run, ever, statusLog>>

\* update_task_status(task_id, status, **kwargs), lines 91-102, up to the
\* call of store_task, whose result it returns
UpdateTaskStatusFrame(task_id, status, kwargs) ==
    [fn |-> "update_task_status", pc |-> "get", task_id |-> task_id,
     status |-> status, kwargs |-> kwargs]

\* update_task_status that forgets the extra fields
UpdatedTaskNoKwargs(task, status, kwargs) ==
    Put(Put(task, "status", status), "updated_at", now)

UpdatedTask(task, status, kwargs) ==
    Merge(Put(Put(task, "status", status), "updated_at", now), kwargs)

UpdateGet ==
    /\ Running("update_task_status", "get")
    /\ LET task == GetTask(Top.task_id)
       IN  IF task = None
           THEN /\ stack' = Tail(stack)
                /\ rv' = Failure("Task not found")
                /\ UNCHANGED <<uuids, ever>>
           ELSE LET new == UpdatedTask(task[1], Top.status, Top.kwargs)
                IN  /\ stack' = Goto(StoreTaskFrame(new))
                    /\ uuids' = UuidsAfterStore(new)
                    /\ ever' = ever \cup {StoreTaskFrame(new).task_id}
                    /\ UNCHANGED rv
    /\ UNCHANGED <<memVars, procVars, costVars, writerVars>>
    /\ UNCHANGED <<tasks, files, dirs, now, faults, ops, call, seen, run, statusLog>>

\* store_batch_tasks(tasks), lines 70-80: store_task on each record in turn,
\* keeping the ids of the stores that succeeded
StoreBatchFrame(batch) ==
    [fn |-> "store_batch_tasks", pc |-> "loop", batch |-> batch, i |-> 1,
     stored_tasks |-> <<>>, attempted |-> <<>>, results |-> <<>>]

BatchResult(stored_tasks) ==
    [success |-> TRUE, tasks_stored |-> Len(stored_tasks), task_ids |-> stored_tasks]

\* store_batch_tasks that puts the newest id first
CollectedFirst(stored_tasks, result) ==
    IF result.success THEN <<result.task_id>> \o stored_tasks ELSE stored_tasks

\* result["success"] decides whether the id is kept (lines 73-74)
Collected(stored_tasks, result) ==
    IF result.success THEN Append(stored_tasks, result.task_id) ELSE stored_tasks

StoreBatchNext ==
    /\ Running("store_batch_tasks", "loop")
    /\ Top.i <= Len(Top.batch)
    /\ LET task == Top.batch[Top.i]
       IN  /\ stack' = <<StoreTaskFrame(task),
                          [Top EXCEPT !.pc = "collect",
                                      !.attempted = Append(@, StoreTaskFrame(task).task_id)]>>
                       \o Tail(stack)
           /\ uuids' = UuidsAfterStore(task)
           /\ ever' = ever \cup {StoreTaskFrame(task).task_id}
    /\ UNCHANGED <<memVars, procVars, costVars, writerVars>>
    /\ UNCHANGED <<tasks, files, dirs, rv, now, faults, ops, call, seen, run, statusLog>>

StoreBatchCollect ==
    /\ Running("store_batch_tasks", "collect")
    /\ stack' = Goto([Top EXCEPT !.pc = "loop", !.i = @ + 1,
                                 !.stored_tasks = Collected(@, rv),
                                 !.results = Append(@, rv)])
    /\ UNCHANGED <<memVars, procVars, costVars, writerVars>>
    /\ UNCHANGED <<tasks, files, dirs, rv, now, uuids, faults, ops, call, seen, run, ever, statusLog>>

StoreBatchReturn ==
    /\ Running("store_batch_tasks", "loop")
    /\ Top.i > Len(Top.batch)
    /\ stack' = Tail(stack)
    /\ rv' = BatchResult(Top.stored_tasks)
    /\ call' = Put(Put(call, "results", Top.results), "attempted", Top.attempted)
    /\ UNCHANGED <<memVars, procVars, costVars, writerVars>>
    /\ UNCHANGED <<tasks, files, dirs, now, uuids, faults, ops, seen, run, ever, statusLog>>

----------------------------------------------------------------------------
(* Texts that hold a JSON mapping.  A mapping is the sequence key, value,   *)
(* key, value, ... in insertion order; its text is the mapping in braces.   *)

RECURSIVE SetKey(_, _, _, _)
\* d[k] = v on the mapping d, looking for k from position i on
SetKey(d, k, v, i) ==
    IF i > Len(d) THEN d \o <<k, v>>
    ELSE IF d[i] = k THEN [d EXCEPT ![i + 1] = v]
    ELSE SetKey(d, k, v, i + 2)

RECURSIVE AddMissing(_, _)
\* a merge in which the keys the mapping already has keep their values
AddMissing(data, content) ==
    IF content = <<>> THEN data
    ELSE AddMissing(IF \E i \in 1..Len(data) : i % 2 = 1 /\ data[i] = content[1]
                    THEN data
                    ELSE data \o <<content[1], content[2]>>,
                    Tail(Tail(content)))

RECURSIVE DictUpdate(_, _)
\* data.update(content)
DictUpdate(data, content) ==
    IF content = <<>> THEN data
    ELSE DictUpdate(SetKey(data, content[1], content[2], 1), Tail(Tail(content)))

\* json.dump(data, f, indent=2)
JsonText(data) == <<"{">> \o data \o <<"}">>

\* json.load(f) of a target: the mapping, or None for a text that is no mapping
ParseJson(text) ==
    LET n == Len(text)
        inner == SubSeq(text, 2, n - 1)
    IN  IF /\ n >= 2
           /\ text[1] = "{"
           /\ text[n] = "}"
           /\ (n - 2) % 2 = 0
           /\ \A i \in 1..(n - 2) : inner[i] \notin {"{", "}"}
        THEN Some(DictUpdate(<<>>, inner))
        ELSE None

----------------------------------------------------------------------------
(* TaskExecutorAgent: the two file operations.  Each gives the result dict  *)
(* and the files and directories it leaves; ioerr says that open raises.    *)

CreationFailed(error) == [success |-> FALSE, error |-> error, action |-> "creation_failed"]
ModificationFailed(error) ==
    [success |-> FALSE, error |-> error, action |-> "modification_failed"]

Effect(result, fs, ds) == [result |-> result, files |-> fs, dirs |-> ds]

Written(loc, text) == [files EXCEPT ![loc] = Text(text)]

IsFile(loc) == files[loc].kind = "text"

\* _execute_file_creation(task), lines 163-182
ExecuteFileCreation(task, ioerr) ==
    IF ~Has(task, "target") THEN Effect(CreationFailed("KeyError"), files, dirs)
    ELSE
    LET loc == TargetPath(task.target)
        made == dirs \cup Parents(loc)
    IN  IF ioerr \/ loc \in made THEN Effect(CreationFailed(OSError), files, made)
        ELSE IF ~Has(task, "content")
        THEN Effect(CreationFailed("KeyError"), Written(loc, <<>>), made)
        ELSE IF task.content.t # "str"
        THEN Effect(CreationFailed("TypeError"), Written(loc, <<>>), made)
        ELSE Effect([success |-> TRUE, action |-> "file_created",
                     target |-> JoinPath(BaseDir, task.target),
                     bytes_written |-> Len(task.content.v)],
                    Written(loc, task.content.v), made)

\* a modification that opens the missing target for writing before it fails
TargetMissingTouched(loc) ==
    Effect(ModificationFailed("Target file does not exist"), Written(loc, <<>>), dirs)

\* lines 189-194: nothing is opened when the target does not exist
TargetMissing(loc) == Effect(ModificationFailed("Target file does not exist"), files, dirs)

RECURSIVE UniversalNewlines(_)
\* f.read() of a file opened with open(path, 'r'): the text mode of Python
\* gives "\n" for every "\r\n" and every "\r" the file holds
UniversalNewlines(text) ==
    IF text = <<>> THEN <<>>
    ELSE IF Head(text) = "\r"
         THEN <<"\n">> \o UniversalNewlines(IF Len(text) > 1 /\ text[2] = "\n"
                                             THEN Tail(Tail(text))
                                             ELSE Tail(text))
         ELSE <<Head(text)>> \o UniversalNewlines(Tail(text))

\* lines 198-200: open(path, 'a') writes after what the file holds
Appended(held, content) == held \o content

\* lines 201-205: the file is read, then written anew (on POSIX, where
\* f.write leaves "\n" as it is)
Prepended(held, content) == content \o UniversalNewlines(held)

\* _execute_file_modification(task), lines 186-228
ExecuteFileModification(task, ioerr) ==
    IF ~Has(task, "target") THEN Effect(ModificationFailed("KeyError"), files, dirs)
    ELSE
    LET loc == TargetPath(task.target)
        modification_type == GetOr(task, "modification", "replace")
        hasText == Has(task, "content") /\ task.content.t = "str"
        bad == IF Has(task, "content") THEN "TypeError" ELSE "KeyError"
        original == files[loc].text
        done == [success |-> TRUE, action |-> "file_modified",
                 target |-> JoinPath(BaseDir, task.target),
                 modification_type |-> modification_type]
    IN  IF ~IsFile(loc) /\ loc \notin dirs
        THEN TargetMissing(loc)
        ELSE IF ioerr \/ loc \in dirs THEN Effect(ModificationFailed(OSError), files, dirs)
        ELSE IF modification_type = "append"
        THEN IF hasText
             THEN Effect(done, Written(loc, Appended(original, task.content.v)), dirs)
             ELSE Effect(ModificationFailed(bad), files, dirs)
        ELSE IF modification_type = "prepend"
        THEN IF hasText
             THEN Effect(done, Written(loc, Prepended(original, task.content.v)), dirs)
             ELSE Effect(ModificationFailed(bad), Written(loc, <<>>), dirs)
        ELSE IF modification_type = "update_json"
        THEN LET data == ParseJson(UniversalNewlines(original))
             IN  IF data = None THEN Effect(ModificationFailed("JSONDecodeError"), files, dirs)
                 ELSE IF ~Has(task, "content")
                 THEN Effect(ModificationFailed("KeyError"), files, dirs)
                 ELSE IF task.content.t = "str" /\ task.content.v # <<>>
                 THEN Effect(ModificationFailed("ValueError"), files, dirs)
                 ELSE Effect(done,
                             Written(loc, JsonText(IF task.content.t = "dict"
                                                   THEN DictUpdate(data[1], task.content.v)
                                                   ELSE data[1])),
                             dirs)
        ELSE IF hasText
             THEN Effect(done, Written(loc, task.content.v), dirs)
             ELSE Effect(ModificationFailed(bad), Written(loc, <<>>), dirs)

----------------------------------------------------------------------------
(* TaskExecutorAgent.execute_task(task_id, enable_rollback), lines 121-159  *)

ExecuteTaskFrame(task_id, enable_rollback) ==
    [fn |-> "execute_task", pc |-> "get", task_id |-> task_id,
     enable_rollback |-> enable_rollback, task |-> None, result |-> None]

\* What the history keeps of an execute_task call: the record it read, how
\* many status values had been persisted for the id when it was called, the
\* files, directories and task files there were, and the result it returned
RunStarted(task_id) ==
    [task_id |-> task_id, task |-> None, mark |-> Len(statusLog[task_id]),
     result |-> None, wrote |-> FALSE, files |-> files, dirs |-> dirs, tasks |-> tasks]

NoRun ==
    [task_id |-> None, task |-> None, mark |-> 0, result |-> None, wrote |-> FALSE,
     files |-> EmptyDict, dirs |-> {}, tasks |-> EmptyDict]

NotFound == Failure("Task not found")

\* execute_task that marks the id "executing" with an upsert before it looks
\* for the record
ExecGetUpsert ==
    /\ Running("execute_task", "get")
    /\ LET task == GetTask(Top.task_id)
           marked == [task_id |-> Top.task_id, status |-> "executing"]
       IN  IF task = None
           THEN /\ stack' = <<StoreTaskFrame(marked)>> \o stack
                /\ UNCHANGED run
           ELSE /\ stack' = <<UpdateTaskStatusFrame(Top.task_id, "executing", EmptyDict),
                              [Top EXCEPT !.pc = "run", !.task = task]>> \o Tail(stack)
                /\ run' = [run EXCEPT !.task = task]
    /\ UNCHANGED <<memVars, procVars, costVars, writerVars>>
    /\ UNCHANGED <<tasks, files, dirs, rv, now, uuids, faults, ops, call, seen, ever, statusLog>>

\* lines 123-128: load the record; without one return the failure, with one
\* call update_task_status(task_id, "executing")
ExecGet ==
    /\ Running("execute_task", "get")
    /\ LET task == GetTask(Top.task_id)
       IN  IF task = None
           THEN /\ stack' = Tail(stack)
                /\ rv' = NotFound
                /\ run' = [run EXCEPT !.result = Some(NotFound)]
           ELSE /\ stack' = <<UpdateTaskStatusFrame(Top.task_id, "executing", EmptyDict),
                              [Top EXCEPT !.pc = "run", !.task = task]>> \o Tail(stack)
                /\ run' = [run EXCEPT !.task = task]
                /\ UNCHANGED rv
    /\ UNCHANGED <<memVars, procVars, costVars, writerVars>>
    /\ UNCHANGED <<tasks, files, dirs, now, uuids, faults, ops, call, seen, ever, statusLog>>

\* lines 131-136: the file operation the record's type selects
Dispatch(task, ioerr) ==
    IF task.type = "file_creation" THEN ExecuteFileCreation(task, ioerr)
    ELSE IF task.type = "file_modification" THEN ExecuteFileModification(task, ioerr)
    ELSE Effect(Failure("Unknown task type"), files, dirs)

\* lines 139-146: the status the result selects
FinalStatus(result) == IF result.success THEN "completed" ELSE "failed"

\* the target of the record is the file of a record of the store
TargetsRecord(task) ==
    Has(task, "target") /\ \E id \in TaskIds : TargetPath(task.target) = TaskFile(id)

ExecRunStep(ioerr) ==
    /\ Running("execute_task", "run")
    /\ Has(Top.task[1], "type")
    /\ ~TargetsRecord(Top.task[1])
    /\ LET eff == Dispatch(Top.task[1], ioerr)
       IN  /\ files' = eff.files
           /\ dirs' = eff.dirs
           /\ stack' = <<UpdateTaskStatusFrame(Top.task_id, FinalStatus(eff.result),
                                               [execution_result |-> eff.result]),
                         [Top EXCEPT !.pc = "final", !.result = Some(eff.result)]>>
                       \o Tail(stack)
           /\ run' = [run EXCEPT !.wrote = @ \/ eff.files # files]
    /\ faults' = IF ioerr THEN faults + 1 ELSE faults
    /\ UNCHANGED <<memVars, procVars, costVars, writerVars>>
    /\ UNCHANGED <<tasks, rv, now, uuids, ops, call, seen, ever, statusLog>>

\* the file operation runs and open succeeds
ExecRun == ExecRunStep(FALSE)

\* lines 131-132 and 163-182 for a file_creation whose target is the file of
\* a record: tasks/ is a directory of base_dir, and open(target_path, 'w')
\* and f.write put the content where the record was
ExecRunInStore ==
    /\ Running("execute_task", "run")
    /\ GetOr(Top.task[1], "type", "") = "file_creation"
    /\ TargetsRecord(Top.task[1])
    /\ LET task == Top.task[1]
           loc == TargetPath(task.target)
           id == CHOOSE i \in TaskIds : TaskFile(i) = loc
           result == IF ~Has(task, "content") THEN CreationFailed("KeyError")
                     ELSE IF task.content.t # "str" THEN CreationFailed("TypeError")
                     ELSE [success |-> TRUE, action |-> "file_created",
                           target |-> JoinPath(BaseDir, task.target),
                           bytes_written |-> Len(task.content.v)]
       IN  /\ tasks' = [tasks EXCEPT ![id] = Text(IF result.success THEN task.content.v
                                                  ELSE <<>>)]
           /\ dirs' = dirs \cup Parents(loc)
           /\ stack' = <<UpdateTaskStatusFrame(Top.task_id, FinalStatus(result),
                                               [execution_result |-> result]),
                         [Top EXCEPT !.pc = "final", !.result = Some(result)]>>
                       \o Tail(stack)
           /\ run' = [run EXCEPT !.wrote = TRUE]
    /\ UNCHANGED <<memVars, procVars, costVars, writerVars>>
    /\ UNCHANGED <<files, rv, now, uuids, faults, ops, call, seen, ever, statusLog>>

\* the file operation runs and open raises
ExecRunFails ==
    /\ Running("execute_task", "run")
    /\ CanFail
    /\ GetOr(Top.task[1], "type", "") \in {"file_creation", "file_modification"}
    /\ Has(Top.task[1], "target")
    /\ ExecRunStep(TRUE)

\* task["type"] raises KeyError: the handler of line 154 returns
ExecRaises ==
    /\ Running("execute_task", "run")
    /\ ~Has(Top.task[1], "type")
    /\ stack' = Tail(stack)
    /\ rv' = [success |-> FALSE, error |-> "KeyError", action |-> "error"]
    /\ run' = [run EXCEPT !.result = Some(rv')]
    /\ UNCHANGED <<memVars, procVars, costVars, writerVars>>
    /\ UNCHANGED <<tasks, files, dirs, now, uuids, faults, ops, call, seen, ever, statusLog>>

\* lines 148-152: the result, renamed when the rollback hook ran
Returned(result, enable_rollback) ==
    IF ~result.success /\ enable_rollback
    THEN Put(result, "action", "rollback_completed")
    ELSE result

ExecReturn ==
    /\ Running("execute_task", "final")
    /\ stack' = Tail(stack)
    /\ rv' = Returned(Top.result[1], Top.enable_rollback)
    /\ run' = [run EXCEPT !.result = Some(rv')]
    /\ UNCHANGED <<memVars, procVars, costVars, writerVars>>
    /\ UNCHANGED <<tasks, files, dirs, now, uuids, faults, ops, call, seen, ever, statusLog>>

----------------------------------------------------------------------------
(* TaskExecutorAgent.execute_batch_tasks(task_ids), lines 232-257           *)

ExecuteBatchFrame(task_ids) ==
    [fn |-> "execute_batch_tasks", pc |-> "loop", task_ids |-> task_ids, i |-> 1,
     results |-> <<>>, succeeded |-> 0, failed |-> 0]

\* execute_batch_tasks that gives up at the first record that fails
TallyUntilFailure(frame, result) ==
    [frame EXCEPT !.pc = "loop",
                  !.i = IF result.success THEN @ + 1 ELSE Len(frame.task_ids) + 1,
                  !.results = Append(@, result),
                  !.succeeded = IF result.success THEN @ + 1 ELSE @,
                  !.failed = IF result.success THEN @ ELSE @ + 1]

\* lines 239-244: keep the result and count it
Tally(frame, result) ==
    [frame EXCEPT !.pc = "loop",
                  !.i = @ + 1,
                  !.results = Append(@, result),
                  !.succeeded = IF result.success THEN @ + 1 ELSE @,
                  !.failed = IF result.success THEN @ ELSE @ + 1]

\* line 238: execute_task(task_id) on the next id
ExecBatchNext ==
    /\ Running("execute_batch_tasks", "loop")
    /\ Top.i <= Len(Top.task_ids)
    /\ stack' = <<ExecuteTaskFrame(Top.task_ids[Top.i], FALSE), [Top EXCEPT !.pc = "collect"]>>
                \o Tail(stack)
    /\ run' = RunStarted(Top.task_ids[Top.i])
    /\ UNCHANGED <<tasks, files, dirs, rv, now, uuids, faults, ops, call, seen, ever, statusLog>>
    /\ UNCHANGED <<memVars, procVars, costVars, writerVars>>

\* the history keeps the execute_task calls the operation made, in order
WithRun(c) == Put(c, "runs", Append(GetOr(c, "runs", <<>>), run))

ExecBatchCollect ==
    /\ Running("execute_batch_tasks", "collect")
    /\ stack' = Goto(Tally(Top, rv))
    /\ call' = WithRun(call)
    /\ UNCHANGED <<tasks, files, dirs, rv, now, uuids, faults, ops, seen, run, ever, statusLog>>
    /\ UNCHANGED <<memVars, procVars, costVars, writerVars>>

ExecBatchResult(frame) ==
    [success |-> TRUE, tasks_executed |-> frame.succeeded, tasks_failed |-> frame.failed,
     detailed_results |-> frame.results]

\* lines 246-251
ExecBatchReturn ==
    /\ Running("execute_batch_tasks", "loop")
    /\ Top.i > Len(Top.task_ids)
    /\ stack' = Tail(stack)
    /\ rv' = ExecBatchResult(Top)
    /\ UNCHANGED <<tasks, files, dirs, now, uuids, faults, ops, call, seen, run, ever, statusLog>>
    /\ UNCHANGED <<memVars, procVars, costVars, writerVars>>

ExecBatchSteps == ExecBatchNext \/ ExecBatchCollect \/ ExecBatchReturn

----------------------------------------------------------------------------
(* TaskMemory: the history of every session and the reusable plans          *)

\* json.dump raises TypeError when it comes to a value that is no JSON value;
\* of the fields of an entry only the timestamp is given as one here
Serializable(record) == ~(Has(record, "timestamp") /\ record.timestamp.t = "datetime")

AllSerializable(history) == \A i \in 1..Len(history) : Serializable(history[i])

\* get_session_history(session_id), lines 550-557: the list the file holds,
\* or [] when there is no file or it does not parse
GetSessionHistory(session_id) ==
    IF sessions[SessionFile(session_id)].kind = "json"
    THEN sessions[SessionFile(session_id)].doc
    ELSE <<>>

StoreExecutionFrame(execution_record) ==
    [fn |-> "store_execution", pc |-> "load", execution_record |-> execution_record,
     history |-> <<>>]

\* lines 527-537: the file of the session is read when it exists, and the
\* record is added to the list
StoreExecLoad ==
    /\ Running("store_execution", "load")
    /\ LET record == Top.execution_record
       IN  IF ~Has(record, "session_id")
           THEN /\ stack' = Tail(stack)
                /\ rv' = Failure("KeyError")
           ELSE LET file == sessions[SessionFile(record.session_id)]
                IN  IF file.kind = "partial"
                    THEN /\ stack' = Tail(stack)
                         /\ rv' = Failure("JSONDecodeError")
                    ELSE /\ stack' = Goto([Top EXCEPT
                                !.pc = "open",
                                !.history = Append(IF file.kind = "json" THEN file.doc ELSE <<>>,
                                                   record)])
                         /\ UNCHANGED rv
    /\ UNCHANGED <<tasks, files, dirs, now, uuids, faults, ops, call, seen, run, ever, statusLog>>
    /\ UNCHANGED <<memVars, procVars, costVars, writerVars>>

\* line 540: open(session_file, 'w') leaves the file empty
StoreExecOpen ==
    /\ Running("store_execution", "open")
    /\ sessions' = [sessions EXCEPT ![SessionFile(Top.execution_record.session_id)] = Partial]
    /\ stack' = Goto([Top EXCEPT !.pc = "dump"])
    /\ UNCHANGED <<tasks, files, dirs, rv, now, uuids, faults, ops, call, seen, run, ever,
                   statusLog>>
    /\ UNCHANGED <<plans, appended, procVars, costVars, writerVars>>

\* lines 541-546: json.dump writes the list, or raises part way and leaves
\* the file with the beginning of a document
StoreExecDump ==
    /\ Running("store_execution", "dump")
    /\ LET session_id == Top.execution_record.session_id
       IN  IF AllSerializable(Top.history)
           THEN /\ sessions' = [sessions EXCEPT ![SessionFile(session_id)] = JsonDoc(Top.history)]
                /\ appended' = [appended EXCEPT ![session_id] =
                                    Append(@, Top.execution_record)]
                /\ rv' = [success |-> TRUE]
           ELSE /\ rv' = Failure("TypeError")
                /\ UNCHANGED <<sessions, appended>>
    /\ stack' = Tail(stack)
    /\ UNCHANGED <<tasks, files, dirs, now, uuids, faults, ops, call, seen, run, ever, statusLog>>
    /\ UNCHANGED <<plans, procVars, costVars, writerVars>>

StoreExecSteps == StoreExecLoad \/ StoreExecOpen \/ StoreExecDump

RollbackFrame(session_id, target_task_id) ==
    [fn |-> "rollback_to_state", pc |-> "load", session_id |-> session_id,
     target_task_id |-> target_task_id, history |-> <<>>, truncated_history |-> <<>>]

\* a search that finds the last entry of the task
LastIndex(history, target_task_id) ==
    LET found == {i \in 1..Len(history) : history[i].task_id = target_task_id}
    IN  IF found = {} THEN 0 ELSE CHOOSE i \in found : \A j \in found : j <= i

\* lines 565-569: the position of the first entry of the task, counted from
\* 1; 0 when there is none (-1 in the code)
TargetIndex(history, target_task_id) ==
    LET found == {i \in 1..Len(history) : history[i].task_id = target_task_id}
    IN  IF found = {} THEN 0 ELSE CHOOSE i \in found : \A j \in found : i <= j

\* lines 562-575: the history is read and the target looked for
RollbackLoad ==
    /\ Running("rollback_to_state", "load")
    /\ LET history == GetSessionHistory(Top.session_id)
           target_index == TargetIndex(history, Top.target_task_id)
       IN  IF target_index = 0
           THEN /\ stack' = Tail(stack)
                /\ rv' = Failure("Target state not found")
           ELSE /\ stack' = Goto([Top EXCEPT
                                    !.pc = "open",
                                    !.history = history,
                                    !.truncated_history = SubSeq(history, 1, target_index)])
                /\ UNCHANGED rv
    /\ UNCHANGED <<tasks, files, dirs, now, uuids, faults, ops, call, seen, run, ever, statusLog>>
    /\ UNCHANGED <<memVars, procVars, costVars, writerVars>>

\* a rollback that opens the file of every session for writing
RollbackOpenAll ==
    /\ Running("rollback_to_state", "open")
    /\ sessions' = [f \in DOMAIN sessions |-> Partial]
    /\ stack' = Goto([Top EXCEPT !.pc = "dump"])
    /\ UNCHANGED <<tasks, files, dirs, rv, now, uuids, faults, ops, call, seen, run, ever,
                   statusLog>>
    /\ UNCHANGED <<plans, appended, procVars, costVars, writerVars>>

\* line 579
RollbackOpen ==
    /\ Running("rollback_to_state", "open")
    /\ sessions' = [sessions EXCEPT ![SessionFile(Top.session_id)] = Partial]
    /\ stack' = Goto([Top EXCEPT !.pc = "dump"])
    /\ UNCHANGED <<tasks, files, dirs, rv, now, uuids, faults, ops, call, seen, run, ever,
                   statusLog>>
    /\ UNCHANGED <<plans, appended, procVars, costVars, writerVars>>

RolledBack(frame) ==
    [success |-> TRUE, rolled_back_to |-> frame.target_task_id,
     states_removed |-> Len(frame.history) - Len(frame.truncated_history)]

\* lines 580-586: the entries kept were read from the file, so json.dump
\* writes them
RollbackDump ==
    /\ Running("rollback_to_state", "dump")
    /\ sessions' = [sessions EXCEPT ![SessionFile(Top.session_id)] =
                        JsonDoc(Top.truncated_history)]
    /\ appended' = [appended EXCEPT ![Top.session_id] = Top.truncated_history]
    /\ stack' = Tail(stack)
    /\ rv' = RolledBack(Top)
    /\ UNCHANGED <<tasks, files, dirs, now, uuids, faults, ops, call, seen, run, ever, statusLog>>
    /\ UNCHANGED <<plans, procVars, costVars, writerVars>>

RollbackSteps == RollbackLoad \/ RollbackOpen \/ RollbackDump

StorePlanFrame(plan) == [fn |-> "store_reusable_plan", pc |-> "open", plan |-> plan]

\* lines 594-597: open(plan_file, 'w')
StorePlanOpen ==
    /\ Running("store_reusable_plan", "open")
    /\ IF Has(Top.plan, "plan_id")
       THEN /\ plans' = [plans EXCEPT ![PlanFile(Top.plan.plan_id)] = Partial]
            /\ stack' = Goto([Top EXCEPT !.pc = "dump"])
            /\ UNCHANGED rv
       ELSE /\ stack' = Tail(stack)
            /\ rv' = Failure("KeyError")
            /\ UNCHANGED plans
    /\ UNCHANGED <<tasks, files, dirs, now, uuids, faults, ops, call, seen, run, ever, statusLog>>
    /\ UNCHANGED <<sessions, appended, procVars, costVars, writerVars>>

\* lines 598-600
StorePlanDump ==
    /\ Running("store_reusable_plan", "dump")
    /\ plans' = [plans EXCEPT ![PlanFile(Top.plan.plan_id)] = JsonDoc(Top.plan)]
    /\ stack' = Tail(stack)
    /\ rv' = [success |-> TRUE]
    /\ UNCHANGED <<tasks, files, dirs, now, uuids, faults, ops, call, seen, run, ever, statusLog>>
    /\ UNCHANGED <<sessions, appended, procVars, costVars, writerVars>>

StorePlanSteps == StorePlanOpen \/ StorePlanDump

----------------------------------------------------------------------------
(* TaskMemory: the reusable plans as templates.  A str is the sequence of   *)
(* its characters; a field of a template is a str or another JSON value.    *)

Number(n) == [t |-> "int", v |-> n]

\* the orders in which plans_dir.glob("*.json") may give the plan files
GlobOrders ==
    {order \in [1..Cardinality(PlanIds) -> PlanIds] :
        \A i, j \in DOMAIN order : order[i] = order[j] => i = j}

RECURSIVE Scan(_, _)
\* get_reusable_plan(pattern), lines 607-615, over the files in the order
\* given: the first plan whose pattern is the one asked for; None when there
\* is none, and None when a file that comes before it does not parse
Scan(order, pattern) ==
    IF order = <<>> THEN None
    ELSE LET file == plans[PlanFile(Head(order))]
         IN  IF file.kind = "absent" THEN Scan(Tail(order), pattern)
             ELSE IF file.kind # "json" THEN None
             ELSE IF GetOr(file.doc, "pattern", "") = pattern THEN Some(file.doc)
             ELSE Scan(Tail(order), pattern)

RECURSIVE StrReplace(_, _, _)
\* value.replace(old, new) for a non-empty old: the occurrences of old, from
\* the left and not overlapping, become new
StrReplace(value, old, new) ==
    IF Len(value) < Len(old) THEN value
    ELSE IF SubSeq(value, 1, Len(old)) = old
    THEN new \o StrReplace(SubSeq(value, Len(old) + 1, Len(value)), old, new)
    ELSE <<Head(value)>> \o StrReplace(Tail(value), old, new)

\* f"{{{var_name}}}"
Placeholder(var_name) == <<"{">> \o var_name \o <<"}">>

RECURSIVE ReplacedAll(_, _)
\* lines 628-629: one replace after another, in the order of variables.items()
ReplacedAll(value, variables) ==
    IF variables = <<>> THEN value
    ELSE ReplacedAll(StrReplace(value, Placeholder(Head(variables).name), Head(variables).value),
                     Tail(variables))

KeyError == [t |-> "raise", error |-> "KeyError"]

\* apply_plan_template(pattern, variables), lines 619-632, on the plan that
\* get_reusable_plan gave
ApplyPlanTemplate(plan, variables) ==
    IF plan = None THEN None
    ELSE IF ~Has(plan[1], "template") THEN KeyError
    ELSE LET template == plan[1].template
         IN  [key \in DOMAIN template |->
                 IF template[key].t = "str"
                 THEN Str(ReplacedAll(template[key].v, variables))
                 ELSE template[key]]

----------------------------------------------------------------------------
(* StructuredTaskProcessor.  A request is a str: the sequence of its        *)
(* characters.                                                              *)

UpperCase == <<"A", "B", "C", "D", "E", "F", "G", "H", "I", "J", "K", "L", "M",
               "N", "O", "P", "Q", "R", "S", "T", "U", "V", "W", "X", "Y", "Z">>
LowerCase == <<"a", "b", "c", "d", "e", "f", "g", "h", "i", "j", "k", "l", "m",
               "n", "o", "p", "q", "r", "s", "t", "u", "v", "w", "x", "y", "z">>

\* request.lower()
Lower(text) ==
    [i \in 1..Len(text) |->
        IF \E n \in 1..26 : UpperCase[n] = text[i]
        THEN LowerCase[CHOOSE n \in 1..26 : UpperCase[n] = text[i]]
        ELSE text[i]]

\* keyword in request_lower
Contains(text, keyword) ==
    \E i \in 0..(Len(text) - Len(keyword)) : SubSeq(text, i + 1, i + Len(keyword)) = keyword

\* lines 428-431
creative_keywords ==
    << <<"c", "r", "e", "a", "t", "i", "v", "e">>,
       <<"s", "t", "o", "r", "y">>,
       <<"n", "a", "r", "r", "a", "t", "i", "v", "e">>,
       <<"u", "n", "i", "q", "u", "e">>,
       <<"d", "e", "s", "i", "g", "n">>,
       <<"a", "l", "g", "o", "r", "i", "t", "h", "m">>,
       <<"c", "o", "m", "p", "l", "e", "x">>,
       <<"g", "e", "n", "e", "r", "a", "t", "e">>,
       <<"i", "n", "n", "o", "v", "a", "t", "i", "v", "e">> >>

\* lines 433-436
simple_keywords ==
    << <<"c", "r", "e", "a", "t", "e", " ", "f", "i", "l", "e">>,
       <<"m", "a", "k", "e", " ", "f", "i", "l", "e">>,
       <<"a", "d", "d", " ", "f", "i", "l", "e">>,
       <<"s", "i", "m", "p", "l", "e">>,
       <<"b", "a", "s", "i", "c">>,
       <<"s", "t", "a", "n", "d", "a", "r", "d">>,
       <<"u", "p", "d", "a", "t", "e">>,
       <<"m", "o", "d", "i", "f", "y">> >>

\* a rule that looks for the simple keywords first
SimpleFirst(request) ==
    LET request_lower == Lower(request)
    IN  IF \E n \in 1..Len(simple_keywords) : Contains(request_lower, simple_keywords[n])
        THEN FALSE
        ELSE TRUE

\* should_use_llm(request), lines 425-449
ShouldUseLlm(request) ==
    LET request_lower == Lower(request)
    IN  IF \E n \in 1..Len(creative_keywords) : Contains(request_lower, creative_keywords[n])
        THEN TRUE
        ELSE IF \E n \in 1..Len(simple_keywords) : Contains(request_lower, simple_keywords[n])
        THEN FALSE
        ELSE TRUE

\* line 456
RuleMatches(request) ==
    /\ Contains(Lower(request), <<"c", "r", "e", "a", "t", "e">>)
    /\ Contains(Lower(request), <<"h", "t", "m", "l">>)

\* lines 457-467: the canned page, line by line
HtmlTemplate ==
    Str(<<"<!DOCTYPE html>", "<html lang=en>", "<head>", "<title>Document</title>", "</head>",
          "<body>", "<h1>Hello World</h1>", "</body>", "</html>">>)

\* a rule-based path that stores the page as a modification of index.html
RuleBasedModification == NewTask("file_modification", IndexHtml, HtmlTemplate)

\* lines 469-474
RuleBasedTask == NewTask("file_creation", IndexHtml, HtmlTemplate)

NoRuleMatched == Failure("No rule matched, LLM needed but not available")

\* What llm_model.generate(prompt) gives: it raises, or returns a text, or a
\* plan for one file, or a plan for several files
Raises == [t |-> "raise"]
Plan(plan) == [t |-> "dict", plan |-> plan]
OnePlan(task_type, target_file, content) ==
    Plan([task_type |-> task_type, target_file |-> target_file, content |-> content])
FilePlan(target_file, content) == [target_file |-> target_file, content |-> content]
ManyPlan(planned) == Plan([task_type |-> "multi_file_creation", tasks |-> planned])

Responses ==
    { Raises,
      Str(<<"x">>),
      OnePlan("file_creation", IndexHtml, Str(<<"h">>)),
      ManyPlan(<<FilePlan(IndexHtml, Str(<<"h">>)), FilePlan(NotesTxt, Str(<<"n">>))>>) }

\* how many records a response makes the processor store
Planned(response) ==
    IF response.t # "dict" THEN 0
    ELSE IF response.plan.task_type = "multi_file_creation" THEN Len(response.plan.tasks)
    ELSE 1

\* create_execution_plan(user_request), lines 278-318
PlanResult(response) ==
    IF response.t = "raise" THEN Failure("generate failed")
    ELSE [success |-> TRUE, plan |-> response, cost_used |-> TRUE]

\* lines 373-381
PlannedTasks(plan) ==
    [i \in 1..Len(plan.tasks) |->
        NewTask("file_creation", plan.tasks[i].target_file, plan.tasks[i].content)]

ProcessFrame(user_request) ==
    [fn |-> "process_user_request", pc |-> "start", user_request |-> user_request]

Counted(counter) == [stats EXCEPT ![counter] = @ + 1]

\* store_task(task_metadata), called from the processor
Storing(task_metadata, pc) ==
    /\ stack' = <<StoreTaskFrame(task_metadata), [Top EXCEPT !.pc = pc]>> \o Tail(stack)
    /\ uuids' = UuidsAfterStore(task_metadata)
    /\ ever' = ever \cup {StoreTaskFrame(task_metadata).task_id}

\* execute_task(task_id), called from the processor
Executing(task_id, pc) ==
    /\ stack' = <<ExecuteTaskFrame(task_id, FALSE), [Top EXCEPT !.pc = pc]>> \o Tail(stack)
    /\ run' = RunStarted(task_id)

\* lines 356-361 and 412-415, and _process_rule_based up to store_task:
\* without a planner, or for a request that needs none, the rules decide
ProcStart ==
    /\ Running("process_user_request", "start")
    /\ LET needs_llm == ShouldUseLlm(Top.user_request)
       IN  IF needs_llm /\ llm_planner
           THEN /\ stack' = Goto([Top EXCEPT !.pc = "plan"])
                /\ stats' = Counted("total_requests")
                /\ UNCHANGED <<rv, uuids, ever>>
           ELSE /\ stats' = [Counted("total_requests") EXCEPT !.rule_based_requests = @ + 1]
                /\ IF RuleMatches(Top.user_request)
                   THEN /\ Storing(RuleBasedTask, "rule_stored")
                        /\ UNCHANGED rv
                   ELSE /\ stack' = Tail(stack)
                        /\ rv' = NoRuleMatched
                        /\ UNCHANGED <<uuids, ever>>
    /\ UNCHANGED <<tasks, files, dirs, now, faults, ops, call, seen, run, statusLog>>
    /\ UNCHANGED <<memVars, llm_planner, llm_calls, costVars, writerVars>>

\* lines 477-490
ProcRuleStored ==
    /\ Running("process_user_request", "rule_stored")
    /\ IF rv.success
       THEN /\ Executing(rv.task_id, "rule_executed")
            /\ UNCHANGED rv
       ELSE /\ stack' = Tail(stack)
            /\ rv' = NoRuleMatched
            /\ UNCHANGED run
    /\ UNCHANGED <<tasks, files, dirs, now, uuids, faults, ops, call, seen, ever, statusLog>>
    /\ UNCHANGED <<memVars, procVars, costVars, writerVars>>

\* lines 479-484
ProcRuleExecuted ==
    /\ Running("process_user_request", "rule_executed")
    /\ stack' = Tail(stack)
    /\ rv' = [success |-> TRUE, llm_used |-> FALSE, rule_based |-> TRUE,
              execution_result |-> rv]
    /\ UNCHANGED <<tasks, files, dirs, now, uuids, faults, ops, call, seen, run, ever, statusLog>>
    /\ UNCHANGED <<memVars, procVars, costVars, writerVars>>

\* lines 363-403: the planner calls the generator once; the plan it returns
\* becomes one record or a batch of records
ProcPlan ==
    /\ Running("process_user_request", "plan")
    /\ \E response \in Responses :
          /\ uuids + Planned(response) <= MaxUuid
          /\ LET plan_result == PlanResult(response)
                 plan == response.plan
             IN  IF ~plan_result.success
                 THEN /\ stack' = Tail(stack)
                      /\ rv' = plan_result
                      /\ UNCHANGED <<uuids, ever>>
                 ELSE IF response.t # "dict"
                 THEN /\ stack' = Tail(stack)
                      /\ rv' = Failure("TypeError")
                      /\ UNCHANGED <<uuids, ever>>
                 ELSE IF plan.task_type = "multi_file_creation"
                 THEN /\ stack' = <<StoreBatchFrame(PlannedTasks(plan)),
                                    [Top EXCEPT !.pc = "batch_stored"]>> \o Tail(stack)
                      /\ UNCHANGED <<rv, uuids, ever>>
                 ELSE /\ Storing(NewTask(plan.task_type, plan.target_file, plan.content),
                                 "single_stored")
                      /\ UNCHANGED rv
    /\ llm_calls' = llm_calls + 1
    /\ stats' = Counted("llm_requests")
    /\ UNCHANGED <<tasks, files, dirs, now, faults, ops, call, seen, run, statusLog>>
    /\ UNCHANGED <<memVars, llm_planner, costVars, writerVars>>

\* lines 384-386: store_batch_tasks always reports success
ProcBatchStored ==
    /\ Running("process_user_request", "batch_stored")
    /\ stack' = <<ExecuteBatchFrame(rv.task_ids),
                  [Top EXCEPT !.pc = "batch_executed"] @@ [task_ids |-> rv.task_ids]>>
                \o Tail(stack)
    /\ UNCHANGED <<tasks, files, dirs, rv, now, uuids, faults, ops, call, seen, run, ever,
                   statusLog>>
    /\ UNCHANGED <<memVars, procVars, costVars, writerVars>>

\* lines 387-393
ProcBatchExecuted ==
    /\ Running("process_user_request", "batch_executed")
    /\ stack' = Tail(stack)
    /\ rv' = [success |-> TRUE, llm_used |-> TRUE, llm_used_for_execution |-> FALSE,
              files_created |-> Len(Top.task_ids), execution_result |-> rv]
    /\ UNCHANGED <<tasks, files, dirs, now, uuids, faults, ops, call, seen, run, ever, statusLog>>
    /\ UNCHANGED <<memVars, procVars, costVars, writerVars>>

\* lines 404-405; when store_task failed the function ends without a return
\* statement and the caller gets None
ProcSingleStored ==
    /\ Running("process_user_request", "single_stored")
    /\ IF rv.success
       THEN /\ Executing(rv.task_id, "single_executed")
            /\ UNCHANGED rv
       ELSE /\ stack' = Tail(stack)
            /\ rv' = None
            /\ UNCHANGED run
    /\ UNCHANGED <<tasks, files, dirs, now, uuids, faults, ops, call, seen, ever, statusLog>>
    /\ UNCHANGED <<memVars, procVars, costVars, writerVars>>

\* lines 406-411
ProcSingleExecuted ==
    /\ Running("process_user_request", "single_executed")
    /\ stack' = Tail(stack)
    /\ rv' = [success |-> TRUE, llm_used |-> TRUE, llm_used_for_execution |-> FALSE,
              execution_result |-> rv]
    /\ UNCHANGED <<tasks, files, dirs, now, uuids, faults, ops, call, seen, run, ever, statusLog>>
    /\ UNCHANGED <<memVars, procVars, costVars, writerVars>>

ProcSteps ==
    \/ ProcStart \/ ProcRuleStored \/ ProcRuleExecuted
    \/ ProcPlan \/ ProcBatchStored \/ ProcBatchExecuted
    \/ ProcSingleStored \/ ProcSingleExecuted

----------------------------------------------------------------------------
(* The Task Classifier: parse_task_type of cost_optimizer.py, on a          *)
(* description that is a str given as the sequence of its characters        *)

\* lines 32-35
creation_keywords ==
    << <<"c", "r", "e", "a", "t", "e">>,
       <<"n", "e", "w", " ", "f", "i", "l", "e">>,
       <<"m", "a", "k", "e">>,
       <<"g", "e", "n", "e", "r", "a", "t", "e">>,
       <<"b", "u", "i", "l", "d">>,
       <<"a", "d", "d", " ", "f", "i", "l", "e">>,
       <<"s", "e", "t", "u", "p">>,
       <<"i", "n", "i", "t", "i", "a", "l", "i", "z", "e">>,
       <<"s", "c", "a", "f", "f", "o", "l", "d">>,
       <<"b", "o", "o", "t", "s", "t", "r", "a", "p">> >>

\* lines 38-41
modification_keywords ==
    << <<"m", "o", "d", "i", "f", "y">>,
       <<"u", "p", "d", "a", "t", "e">>,
       <<"c", "h", "a", "n", "g", "e">>,
       <<"e", "d", "i", "t">>,
       <<"f", "i", "x">>,
       <<"i", "m", "p", "r", "o", "v", "e">>,
       <<"s", "t", "y", "l", "e">>,
       <<"f", "o", "r", "m", "a", "t">>,
       <<"r", "e", "f", "a", "c", "t", "o", "r">>,
       <<"o", "p", "t", "i", "m", "i", "z", "e">> >>

\* lines 44-48
reasoning_keywords ==
    << <<"a", "n", "a", "l", "y", "z", "e">>,
       <<"r", "e", "v", "i", "e", "w">>,
       <<"s", "u", "g", "g", "e", "s", "t">>,
       <<"d", "e", "s", "i", "g", "n">>,
       <<"i", "m", "p", "l", "e", "m", "e", "n", "t", " ", "a", "l", "g", "o", "r", "i", "t", "h", "m">>,
       <<"d", "e", "b", "u", "g">>,
       <<"t", "r", "o", "u", "b", "l", "e", "s", "h", "o", "o", "t">>,
       <<"p", "e", "r", "f", "o", "r", "m", "a", "n", "c", "e">>,
       <<"a", "r", "c", "h", "i", "t", "e", "c", "t", "u", "r", "e">>,
       <<"a", "l", "g", "o", "r", "i", "t", "h", "m">>,
       <<"l", "o", "g", "i", "c">>,
       <<"s", "t", "r", "a", "t", "e", "g", "y">>,
       <<"p", "l", "a", "n">> >>

\* any(keyword in description_lower for keyword in keywords)
AnyIn(keywords, description_lower) ==
    \E n \in 1..Len(keywords) : Contains(description_lower, keywords[n])

\* a classifier that looks for the modification keywords first
ModificationFirst(task_description) ==
    LET description_lower == Lower(task_description)
    IN  IF AnyIn(modification_keywords, description_lower) THEN "file_modification"
        ELSE IF AnyIn(creation_keywords, description_lower) THEN "file_creation"
        ELSE IF AnyIn(reasoning_keywords, description_lower) THEN "ai_reasoning"
        ELSE "unknown"

\* parse_task_type(task_description), lines 29-62
parse_task_type(task_description) ==
    LET description_lower == Lower(task_description)
    IN  IF AnyIn(creation_keywords, description_lower) THEN "file_creation"
        ELSE IF AnyIn(modification_keywords, description_lower) THEN "file_modification"
        ELSE IF AnyIn(reasoning_keywords, description_lower) THEN "ai_reasoning"
        ELSE "unknown"

----------------------------------------------------------------------------
(* CostTracker and CostOptimizedExecutor of cost_optimizer.py.  The files   *)
(* of project_dir are named by the characters of their names.               *)

\* CostTracker.__init__, lines 229-232
NoOperations == [operations |-> <<>>, total_tokens_used |-> 0, total_tokens_saved |-> 0]

\* record_operation(operation_type, used_ai, tokens_used, tokens_saved),
\* lines 237-247
record_operation(tracker, operation_type, used_ai, tokens_used, tokens_saved) ==
    [operations |-> Append(tracker.operations,
                           [type |-> operation_type, used_ai |-> used_ai,
                            tokens_used |-> tokens_used, tokens_saved |-> tokens_saved]),
     total_tokens_used |-> tracker.total_tokens_used + (IF used_ai THEN tokens_used ELSE 0),
     total_tokens_saved |-> tracker.total_tokens_saved + (IF used_ai THEN 0 ELSE tokens_saved)]

\* A float with two decimals is the number of its hundredths
Hundredths(h) == [t |-> "float", hundredths |-> h]

\* round(num / den * 100, 2): the nearest number of hundredths, the even one
\* of two that are equally near
RoundedPercentage(num, den) ==
    LET q == (num * 10000) \div den
        r == (num * 10000) % den
    IN  Hundredths(IF 2 * r < den THEN q
                   ELSE IF 2 * r > den THEN q + 1
                   ELSE IF q % 2 = 0 THEN q ELSE q + 1)

\* statistics whose percentage is the share of the operations without AI
ShareOfOperations(tracker) ==
    LET total_ops == Len(tracker.operations)
        ai_ops == Cardinality({i \in 1..total_ops : tracker.operations[i].used_ai})
    IN  [total_operations |-> total_ops,
         ai_operations |-> ai_ops,
         non_ai_operations |-> total_ops - ai_ops,
         tokens_saved |-> tracker.total_tokens_saved,
         tokens_used |-> tracker.total_tokens_used,
         cost_savings_percentage |->
            IF total_ops > 0 THEN RoundedPercentage(total_ops - ai_ops, total_ops)
            ELSE Hundredths(0)]

\* get_statistics(), lines 251-268
get_statistics(tracker) ==
    LET total_ops == Len(tracker.operations)
        ai_ops == Cardinality({i \in 1..total_ops : tracker.operations[i].used_ai})
        total_potential_tokens == tracker.total_tokens_used + tracker.total_tokens_saved
    IN  [total_operations |-> total_ops,
         ai_operations |-> ai_ops,
         non_ai_operations |-> total_ops - ai_ops,
         tokens_saved |-> tracker.total_tokens_saved,
         tokens_used |-> tracker.total_tokens_used,
         cost_savings_percentage |->
            IF total_potential_tokens > 0
            THEN RoundedPercentage(tracker.total_tokens_saved, total_potential_tokens)
            ELSE Hundredths(0)]

\* What a call of the executor leaves: its result, the tracker and the files
Outcome(result, tracker, written) == [result |-> result, tracker |-> tracker, project |-> written]

\* lines 374-380 and 413-419
WithoutAi(message) ==
    [success |-> TRUE, used_ai |-> FALSE, cost_savings |-> "100%", message |-> message,
     ai_calls |-> 0]

\* lines 383-388 and 422-427
WithoutAiFailed(error) ==
    [success |-> FALSE, used_ai |-> FALSE, error |-> error, ai_calls |-> 0]

\* title.lower().replace(' ', '_')
Underscored(text) == [i \in 1..Len(text) |-> IF text[i] = " " THEN "_" ELSE text[i]]

\* lines 78-90: the page, piece by piece
HtmlPage(title, content) ==
    <<"<!DOCTYPE html>", "<head>", "<title>">> \o title \o <<"</title>", "</head>", "<body>">>
        \o content \o <<"<script src=main.js>", "</body>", "</html>">>

RECURSIVE CssRules(_)
\* lines 118-122 and 401-405: the rules of a style mapping, in its order
CssRules(styles) ==
    IF styles = <<>> THEN <<>>
    ELSE <<Head(styles).selector, "{">> \o Head(styles).properties \o <<"}">>
            \o CssRules(Tail(styles))

\* line 353
DefaultStyles == <<[selector |-> "body", properties |-> <<"margin: 0;", "padding: 0;">>]>>

\* lines 191-207: the module, piece by piece
JsModule(module_name) == <<"const ", module_name, " = {", "init() {}", "};">>

\* open(path, 'w') and f.write(text) on a file of project_dir
Created(name, text) == [project EXCEPT ![name] = Text(text)]

\* create_html_from_template, create_css_from_template and
\* create_js_from_template (lines 65-223) catch the error of open and return
\* a message; the message is all the executor gets
TemplateMessage(kind, name, text, ioerr) ==
    IF ioerr THEN [message |-> <<"Error creating ", kind, " file: ", OSError>>, project |-> project]
    ELSE [message |-> <<"Successfully created ", kind, " file: ", name>>,
          project |-> Created(name, text)]

\* _execute_file_creation_without_ai(task), lines 342-388
ExecuteFileCreationWithoutAi(task, ioerr) ==
    LET details == GetOr(task, "details", EmptyDict)
        file_type == GetOr(details, "file_type", "html")
        saved == record_operation(cost_tracker, "file_creation", FALSE, 0, 1500)
        done(made) == Outcome(WithoutAi(made.message), saved, made.project)
    IN  IF file_type = "html"
        THEN LET title == GetOr(details, "title", <<"G", "a", "m", "e">>)
                 content == GetOr(details, "content", <<"<div>Content</div>">>)
             IN  done(TemplateMessage("HTML", Underscored(Lower(title)) \o <<".html">>,
                                      HtmlPage(title, content), ioerr))
        ELSE IF file_type = "css"
        THEN done(TemplateMessage("CSS", <<"styles.css">>,
                                  <<"/* Generated CSS file */">>
                                      \o CssRules(GetOr(details, "styles", DefaultStyles)),
                                  ioerr))
        ELSE IF file_type = "js"
        THEN IF Has(details, "template_type") \/ Has(details, "file_path")
             THEN Outcome(WithoutAiFailed("TypeError"), cost_tracker, project)
             ELSE done(TemplateMessage("JavaScript", <<"script.js">>,
                                       JsModule(GetOr(details, "module_name", "utils")), ioerr))
        ELSE IF ioerr THEN Outcome(WithoutAiFailed(OSError), cost_tracker, project)
        ELSE Outcome(WithoutAi(<<"Successfully created ", file_type, " file: ",
                                 <<"file.", file_type>> >>),
                     saved,
                     Created(<<"file.", file_type>>,
                             GetOr(details, "content", <<"// Generated file">>)))

\* f.write after open(path, 'a'): the text follows what the file holds
AppendedTo(name, text) ==
    [project EXCEPT ![name] = Text((IF @.kind = "text" THEN @.text ELSE <<>>) \o text)]

\* _execute_file_modification_without_ai(task), lines 392-427
ExecuteFileModificationWithoutAi(task, ioerr) ==
    LET details == GetOr(task, "details", EmptyDict)
        modifications == GetOr(details, "modifications", EmptyDict)
        saved == record_operation(cost_tracker, "file_modification", FALSE, 0, 500)
        named == IF Has(details, "file_path") THEN details.file_path ELSE <<"None">>
        done(written) == Outcome(WithoutAi(<<"Successfully modified ", named>>), saved, written)
    IN  IF ~Has(modifications, "add_styles") THEN done(project)
        ELSE IF ~Has(details, "file_path")
        THEN Outcome(WithoutAiFailed("TypeError"), cost_tracker, project)
        ELSE IF ioerr THEN Outcome(WithoutAiFailed(OSError), cost_tracker, project)
        ELSE done(AppendedTo(details.file_path, CssRules(modifications.add_styles)))

\* _execute_with_minimal_ai(task), lines 432-442
ExecuteWithMinimalAi(task) ==
    Outcome([success |-> TRUE, used_ai |-> TRUE, ai_calls |-> 1,
             message |-> <<"Task executed with minimal AI usage">>, cost_savings |-> "60%"],
            record_operation(cost_tracker, "ai_reasoning", TRUE, 800, 0),
            project)

\* _execute_with_ai_fallback(task), lines 447-453
ExecuteWithAiFallback(task) ==
    Outcome([success |-> TRUE, used_ai |-> TRUE, ai_calls |-> 3,
             message |-> <<"Task executed with AI fallback">>, cost_savings |-> "0%"],
            cost_tracker,
            project)

\* lines 321-322
TaskType(task) == parse_task_type(GetOr(task, "description", <<>>))

\* the fallback of line 338 is reached
FallsBack(task) ==
    LET task_type == TaskType(task)
    IN  ~ \/ task_type = "file_creation" /\ use_templates
          \/ task_type = "file_modification" /\ minimize_ai
          \/ task_type = "ai_reasoning"

\* CostOptimizedExecutor.execute_task(task), lines 321-338
CostOptimizedExecute(task, ioerr) ==
    LET task_type == TaskType(task)
    IN  IF task_type = "file_creation" /\ use_templates
        THEN ExecuteFileCreationWithoutAi(task, ioerr)
        ELSE IF task_type = "file_modification" /\ minimize_ai
        THEN ExecuteFileModificationWithoutAi(task, ioerr)
        ELSE IF task_type = "ai_reasoning"
        THEN ExecuteWithMinimalAi(task)
        ELSE ExecuteWithAiFallback(task)

----------------------------------------------------------------------------
(* The callers.  A public operation starts when the thread is idle; its     *)
(* arguments are drawn from the inputs below.                               *)

CanCall == Idle /\ ops < MaxOps

WithId(task, id) == Put(task, "task_id", id)

Appending(task) == Put(task, "modification", "append")

\* Records the executor is given: a creation inside the root, a creation
\* whose target climbs out of it, an append to a file inside and to a file
\* outside the root, and a record without a type.
ExecShapes ==
    { NewTask("file_creation", IndexHtml, Str(<<"h">>)),
      NewTask("file_creation", UpTxt, Str(<<"h">>)),
      Appending(NewTask("file_modification", IndexHtml, Str(<<"c">>))),
      Appending(NewTask("file_modification", EtcX, Str(<<"c">>))),
      Without(NewTask("file_creation", IndexHtml, Str(<<"h">>)), {"type"}) }

\* Records the store is given
StoreShapes ==
    { NewTask("file_creation", IndexHtml, Str(<<"h">>)),
      Appending(NewTask("file_modification", IndexHtml, Str(<<"c">>))) }

\* Modifications in every mode, on a target that is missing, on one that
\* holds a text and on one that holds a JSON mapping
Modifying(task, mode) == Put(task, "modification", mode)

ModeShapes ==
    { NewTask("file_modification", target, Str(<<"c">>)) :
        target \in {IndexHtml, NotesTxt, DataJson} }
    \cup
    { Modifying(NewTask("file_modification", target, Str(<<"c">>)), mode) :
        target \in {IndexHtml, NotesTxt, DataJson}, mode \in {"replace", "append", "prepend"} }
    \cup
    { Modifying(NewTask("file_modification", target, Dict(<<"a", "2", "b", "4">>)),
                "update_json") :
        target \in {IndexHtml, NotesTxt, DataJson} }

\* Records of a batch: one without an id, one with the caller's id
BatchShapes ==
    { NewTask("file_creation", IndexHtml, Str(<<"h">>)) } \cup
    { WithId(Appending(NewTask("file_modification", IndexHtml, Str(<<"c">>))), id) :
        id \in CallerIds }

Identified(shapes) == shapes \cup {WithId(r, id) : r \in shapes, id \in CallerIds}

CallStoreTask(inputs) ==
    /\ CanCall
    /\ \E task \in inputs :
          /\ Has(task, "task_id") \/ uuids < MaxUuid
          /\ stack' = <<StoreTaskFrame(task)>>
          /\ uuids' = UuidsAfterStore(task)
          /\ ever' = ever \cup {StoreTaskFrame(task).task_id}
          /\ call' = [op |-> "store_task", task |-> task,
                      existing |-> {id \in TaskIds : tasks[id] # Absent}]
    /\ ops' = ops + 1
    /\ UNCHANGED <<memVars, procVars, costVars, writerVars>>
    /\ UNCHANGED <<tasks, files, dirs, rv, now, faults, seen, run, statusLog>>

CallGetTask ==
    /\ CanCall
    /\ \E id \in TaskIds :
          /\ rv' = GetTask(id)
          /\ call' = [op |-> "get_task", task_id |-> id,
                      after |-> Without(call, {"after", "returned"}), returned |-> rv]
    /\ ops' = ops + 1
    /\ UNCHANGED <<memVars, procVars, costVars, writerVars>>
    /\ UNCHANGED <<tasks, files, dirs, stack, now, uuids, faults, seen, run, ever, statusLog>>

\* **kwargs of update_task_status
Kwargs ==
    { EmptyDict,
      [note |-> "n"],
      [execution_result |-> Failure("e"), note |-> "n"] }

CallUpdateTaskStatus(statuses) ==
    /\ CanCall
    /\ \E id \in TaskIds, status \in statuses, kwargs \in Kwargs :
          /\ stack' = <<UpdateTaskStatusFrame(id, status, kwargs)>>
          /\ call' = [op |-> "update_task_status", task_id |-> id, status |-> status,
                      kwargs |-> kwargs, before |-> tasks]
    /\ ops' = ops + 1
    /\ UNCHANGED <<memVars, procVars, costVars, writerVars>>
    /\ UNCHANGED <<tasks, files, dirs, rv, now, uuids, faults, seen, run, ever, statusLog>>

Batches(inputs) == UNION {[1..n -> inputs] : n \in 0..MaxBatch}

Unidentified(batch) == Cardinality({i \in 1..Len(batch) : ~Has(batch[i], "task_id")})

CallStoreBatch(inputs) ==
    /\ CanCall
    /\ \E batch \in Batches(inputs) :
          /\ uuids + Unidentified(batch) <= MaxUuid
          /\ stack' = <<StoreBatchFrame(batch)>>
          /\ call' = [op |-> "store_batch_tasks", batch |-> batch]
    /\ ops' = ops + 1
    /\ UNCHANGED <<memVars, procVars, costVars, writerVars>>
    /\ UNCHANGED <<tasks, files, dirs, rv, now, uuids, faults, seen, run, ever, statusLog>>

CallExecuteTask ==
    /\ CanCall
    /\ \E id \in TaskIds, enable_rollback \in BOOLEAN :
          /\ stack' = <<ExecuteTaskFrame(id, enable_rollback)>>
          /\ call' = [op |-> "execute_task", task_id |-> id,
                      enable_rollback |-> enable_rollback]
          /\ run' = RunStarted(id)
    /\ ops' = ops + 1
    /\ UNCHANGED <<memVars, procVars, costVars, writerVars>>
    /\ UNCHANGED <<tasks, files, dirs, rv, now, uuids, faults, seen, ever, statusLog>>

\* Lists of ids execute_batch_tasks is given: ids a caller chose, and an id
\* no record has
IdLists == UNION {[1..n -> CallerIds \cup {Uuid4}] : n \in 0..MaxBatch}

CallExecuteBatch ==
    /\ CanCall
    /\ uuids < MaxUuid
    /\ \E task_ids \in IdLists :
          /\ stack' = <<ExecuteBatchFrame(task_ids)>>
          /\ call' = [op |-> "execute_batch_tasks", task_ids |-> task_ids]
    /\ ops' = ops + 1
    /\ UNCHANGED <<tasks, files, dirs, rv, now, uuids, faults, seen, run, ever, statusLog>>
    /\ UNCHANGED <<memVars, procVars, costVars, writerVars>>

CanCallMemory == Idle /\ ops < MaxMemOps

\* The task ids history entries carry
EntryTaskIds == {"t1", "t2"}

Entry(session_id, task_id, timestamp) ==
    [session_id |-> session_id, task_id |-> task_id, timestamp |-> timestamp]

\* History entries: of every session and task with a timestamp that is a
\* string, and one whose timestamp is a datetime
Entries ==
    { Entry(sid, tid, Str(<<"0">>)) : sid \in SessionIds, tid \in EntryTaskIds }
    \cup { Entry("s1", "t2", DateTime(<<"0">>)) }

\* what there is when an operation of TaskMemory is called
Snapshot ==
    [sessions |-> sessions, plans |-> plans, tasks |-> tasks, files |-> files, dirs |-> dirs]

CallStoreExecution ==
    /\ CanCallMemory
    /\ \E record \in Entries :
          /\ stack' = <<StoreExecutionFrame(record)>>
          /\ call' = [op |-> "store_execution", execution_record |-> record,
                      before |-> Snapshot]
    /\ ops' = ops + 1
    /\ UNCHANGED <<tasks, files, dirs, rv, now, uuids, faults, seen, run, ever, statusLog>>
    /\ UNCHANGED <<memVars, procVars, costVars, writerVars>>

CallRollback ==
    /\ CanCallMemory
    /\ \E session_id \in SessionIds, target_task_id \in EntryTaskIds :
          /\ stack' = <<RollbackFrame(session_id, target_task_id)>>
          /\ call' = [op |-> "rollback_to_state", session_id |-> session_id,
                      target_task_id |-> target_task_id, before |-> Snapshot]
    /\ ops' = ops + 1
    /\ UNCHANGED <<tasks, files, dirs, rv, now, uuids, faults, seen, run, ever, statusLog>>
    /\ UNCHANGED <<memVars, procVars, costVars, writerVars>>

\* Reusable plans
Plans ==
    { [plan_id |-> "p1", pattern |-> "web", template |-> [content |-> <<"Hello ", "{name}">>]] }

CallStoreReusablePlan(inputs) ==
    /\ CanCallMemory
    /\ \E plan \in inputs :
          /\ stack' = <<StorePlanFrame(plan)>>
          /\ call' = [op |-> "store_reusable_plan", plan |-> plan, before |-> Snapshot]
    /\ ops' = ops + 1
    /\ UNCHANGED <<tasks, files, dirs, rv, now, uuids, faults, seen, run, ever, statusLog>>
    /\ UNCHANGED <<memVars, procVars, costVars, writerVars>>

\* Plans with a template of two str fields and a number, under two
\* patterns
TemplatePlans ==
    { [plan_id |-> pid, pattern |-> pattern,
       template |-> [content |-> Str(<<"{", "n", "a", "m", "e", "}", "{", "i", "d", "}", "{", "n", "a", "m", "e", "}">>), target_file |-> Str(<<"{", "n", "a", "m", "e", "}", ".", "{", "e", "x", "t", "}">>), version |-> Number(1)]] :
        pid \in PlanIds, pattern \in {"web", "api"} }

Variable(name, value) == [name |-> name, value |-> value]

\* The variables apply_plan_template is given, in the order of the dict:
\* none; name alone; name and then ext; and name with a value that is the
\* placeholder of ext, before ext and after it
VariableDicts ==
    { <<>>,
      <<Variable(<<"n", "a", "m", "e">>, <<"B", "o", "b">>)>>,
      <<Variable(<<"n", "a", "m", "e">>, <<"B", "o", "b">>), Variable(<<"e", "x", "t">>, <<"m", "d">>)>>,
      <<Variable(<<"n", "a", "m", "e">>, <<"{", "e", "x", "t", "}">>), Variable(<<"e", "x", "t">>, <<"m", "d">>)>>,
      <<Variable(<<"e", "x", "t">>, <<"m", "d">>), Variable(<<"n", "a", "m", "e">>, <<"{", "e", "x", "t", "}">>)>> }

CallApplyPlanTemplate ==
    /\ CanCallMemory
    /\ \E pattern \in {"web", "api"}, variables \in VariableDicts, order \in GlobOrders :
          /\ rv' = ApplyPlanTemplate(Scan(order, pattern), variables)
          /\ call' = [op |-> "apply_plan_template", pattern |-> pattern,
                      variables |-> variables, before |-> Snapshot]
    /\ ops' = ops + 1
    /\ UNCHANGED <<tasks, files, dirs, stack, now, uuids, faults, seen, run, ever, statusLog>>
    /\ UNCHANGED <<memVars, procVars, costVars, writerVars>>


\* The requests the processor is given
CreateSimpleHtml == <<"C", "r", "e", "a", "t", "e", " ", "a", " ", "s", "i", "m", "p", "l", "e", " ", "H", "T", "M", "L", " ", "h", "o", "m", "e", "p", "a", "g", "e">>
CreateCreativeHtml == <<"c", "r", "e", "a", "t", "e", " ", "a", " ", "c", "r", "e", "a", "t", "i", "v", "e", " ", "h", "t", "m", "l", " ", "p", "a", "g", "e">>
CreateHtml == <<"c", "r", "e", "a", "t", "e", " ", "h", "t", "m", "l">>
UpdateReadme == <<"u", "p", "d", "a", "t", "e", " ", "r", "e", "a", "d", "m", "e">>
WriteStory == <<"w", "r", "i", "t", "e", " ", "a", " ", "s", "t", "o", "r", "y">>

Requests == {CreateSimpleHtml, CreateCreativeHtml, CreateHtml, UpdateReadme, WriteStory}

CallProcess ==
    /\ CanCall
    /\ uuids < MaxUuid
    /\ \E user_request \in Requests :
          /\ stack' = <<ProcessFrame(user_request)>>
          /\ call' = [op |-> "process_user_request", user_request |-> user_request,
                      before |-> Snapshot, calls |-> llm_calls]
    /\ ops' = ops + 1
    /\ UNCHANGED <<tasks, files, dirs, rv, now, uuids, faults, seen, run, ever, statusLog>>
    /\ UNCHANGED <<memVars, procVars, costVars, writerVars>>

\* The words the descriptions and the requests are made of
Words ==
    { <<"C", "r", "e", "a", "t", "e">>,
      <<"M", "A", "K", "E">>,
      <<"U", "P", "D", "A", "T", "E">>,
      <<"f", "i", "x">>,
      <<"D", "e", "s", "i", "g", "n">>,
      <<"S", "i", "m", "p", "l", "e">>,
      <<"N", "E", "W">>,
      <<"F", "i", "l", "e">>,
      <<" ">>,
      <<"x">> }

\* The caller puts a description together, one word after another
Describe ==
    /\ call.op \in {"none", "describe"}
    /\ GetOr(call, "words", 0) < MaxWords
    /\ \E word \in Words :
          call' = [op |-> "describe",
                   task_description |-> GetOr(call, "task_description", <<>>) \o word,
                   words |-> GetOr(call, "words", 0) + 1]
    /\ UNCHANGED <<tasks, files, dirs, stack, rv, now, uuids, faults, ops, seen, run, ever,
                   statusLog>>
    /\ UNCHANGED <<memVars, procVars, costVars, writerVars>>

CallParseTaskType ==
    /\ call.op \in {"none", "describe"}
    /\ LET task_description == GetOr(call, "task_description", <<>>)
       IN  /\ call' = [op |-> "parse_task_type", task_description |-> task_description]
           /\ rv' = parse_task_type(task_description)
    /\ UNCHANGED <<tasks, files, dirs, stack, now, uuids, faults, ops, seen, run, ever,
                   statusLog>>
    /\ UNCHANGED <<memVars, procVars, costVars, writerVars>>

\* should_use_llm(request) on the text put together
CallShouldUseLlm ==
    /\ call.op \in {"none", "describe"}
    /\ LET request == GetOr(call, "task_description", <<>>)
       IN  /\ call' = [op |-> "should_use_llm", request |-> request]
           /\ rv' = ShouldUseLlm(request)
    /\ UNCHANGED <<tasks, files, dirs, stack, now, uuids, faults, ops, seen, run, ever,
                   statusLog>>
    /\ UNCHANGED <<memVars, procVars, costVars, writerVars>>

\* The files of project_dir
GameHtml == <<"g", "a", "m", "e", ".html">>
MyPageHtml == <<"m", "y", "_", "p", "a", "g", "e", ".html">>
ProjectFiles == {GameHtml, MyPageHtml, <<"styles.css">>, <<"script.js">>, <<"file.", "txt">>}

\* The tasks the CostOptimizedExecutor is given
ParagraphStyles == <<[selector |-> "p", properties |-> <<"color: red;">>]>>

Details ==
    { EmptyDict,
      [title |-> <<"M", "y", " ", "P", "a", "g", "e">>],
      [file_type |-> "css"],
      [file_type |-> "js"],
      [file_type |-> "js", template_type |-> "game_class"],
      [file_type |-> "txt", content |-> <<"x">>],
      [file_path |-> <<"styles.css">>, modifications |-> [add_styles |-> ParagraphStyles]],
      [modifications |-> [add_styles |-> ParagraphStyles]] }

DispatcherDescriptions ==
    { <<"C", "r", "e", "a", "t", "e">>,
      <<"U", "P", "D", "A", "T", "E", " ", "i", "t">>,
      <<"a", "n", "a", "l", "y", "z", "e">>,
      <<"h", "e", "l", "l", "o">>,
      <<"F", "i", "x", " ", "n", "e", "w", " ", "f", "i", "l", "e">> }

DispatcherTasks ==
    {EmptyDict} \cup {[description |-> d] : d \in DispatcherDescriptions}
    \cup {[description |-> d, details |-> x] : d \in DispatcherDescriptions, x \in Details}

\* the task makes the executor open a file
Opens(task) ==
    LET details == GetOr(task, "details", EmptyDict)
        task_type == TaskType(task)
    IN  \/ /\ task_type = "file_creation" /\ use_templates
           /\ ~(GetOr(details, "file_type", "html") = "js" /\ Has(details, "template_type"))
        \/ /\ task_type = "file_modification" /\ minimize_ai
           /\ Has(GetOr(details, "modifications", EmptyDict), "add_styles")
           /\ Has(details, "file_path")

ExecutorTask == "CostOptimizedExecutor.execute_task"

CallCostOptimizedExecute ==
    /\ CanCall
    /\ \E task \in DispatcherTasks, ioerr \in BOOLEAN :
          /\ ioerr => (CanFail /\ Opens(task))
          /\ LET out == CostOptimizedExecute(task, ioerr)
             IN  /\ rv' = out.result
                 /\ cost_tracker' = out.tracker
                 /\ project' = out.project
          /\ faults' = IF ioerr THEN faults + 1 ELSE faults
          /\ call' = [op |-> ExecutorTask, task |-> task, before |-> cost_tracker]
    /\ ops' = ops + 1
    /\ UNCHANGED <<tasks, files, dirs, stack, now, uuids, seen, run, ever, statusLog>>
    /\ UNCHANGED <<memVars, procVars, minimize_ai, use_templates, writerVars>>

\* get_cost_statistics(), line 462
CallGetCostStatistics ==
    /\ Idle
    /\ call.op # "get_cost_statistics"
    /\ rv' = get_statistics(cost_tracker)
    /\ call' = [op |-> "get_cost_statistics"]
    /\ UNCHANGED <<tasks, files, dirs, stack, now, uuids, faults, ops, seen, run, ever,
                   statusLog>>
    /\ UNCHANGED <<memVars, procVars, costVars, writerVars>>


----------------------------------------------------------------------------
(* TaskMemory.store_execution called by two processes that share the        *)
(* memory/ directory.  Each process runs the statements of lines 527-543 in *)
(* order; the statements of the two interleave.  The entries stored here    *)
(* are ones json.dump can write, so that json.dump does not raise.          *)

Writers == {"w1", "w2"}

Other(w) == CHOOSE o \in Writers : o # w

\* no call of store_execution was made yet
NoCall == [pc |-> "idle"]

\* The entries the two processes store: timestamps of one and of two digits
WriterEntries ==
    { Entry(sid, "t1", Str(digits)) : sid \in SessionIds, digits \in {<<"0">>, <<"1", "0">>} }

\* json.dump(.., indent=2) of one entry: '  {', the three members, each
\* '    "key": "value"', separated by ',' and a newline, and '  }'
EntrySize(entry) ==
    LET member(key, value) == 4 + (Len(key) + 2) + 2 + (Len(value) + 2)
    IN  4 + member("session_id", entry.session_id) + 2
          + member("task_id", entry.task_id) + 2
          + member("timestamp", entry.timestamp.v) + 4

RECURSIVE EntriesSize(_)
EntriesSize(history) ==
    IF history = <<>> THEN 0
    ELSE EntrySize(Head(history)) + (IF Len(history) > 1 THEN 2 ELSE 0)
            + EntriesSize(Tail(history))

\* The number of characters json.dump(history, f, indent=2) writes
DocSize(history) == IF history = <<>> THEN 2 ELSE 2 + EntriesSize(history) + 2

\* a process calls store_execution(execution_record)
WriterCall(w) ==
    /\ writers[w].pc \in {"idle", "done"}
    /\ ops < MaxOps
    /\ \E record \in WriterEntries :
          writers' = [writers EXCEPT ![w] =
                        [pc |-> "load", execution_record |-> record, history |-> <<>>]]
    /\ raced' = FALSE
    /\ ops' = ops + 1
    /\ UNCHANGED <<tasks, files, dirs, stack, rv, now, uuids, faults, call, seen, run, ever,
                   statusLog>>
    /\ UNCHANGED <<memVars, procVars, costVars>>

\* lines 527-537: the file of the session is read when it exists, and the
\* record is added to the list.  The other process has read and not yet
\* written when it stands before its open.
WriterLoad(w) ==
    /\ writers[w].pc = "load"
    /\ LET record == writers[w].execution_record
           file == sessions[SessionFile(record.session_id)]
           other == writers[Other(w)]
       IN  IF file.kind = "partial"
           THEN /\ writers' = [writers EXCEPT ![w] =
                                [pc |-> "done", execution_record |-> record,
                                 history |-> <<>>, rv |-> Failure("JSONDecodeError")]]
                /\ UNCHANGED raced
           ELSE /\ writers' = [writers EXCEPT ![w] =
                                [pc |-> "open", execution_record |-> record,
                                 history |-> Append(IF file.kind = "json" THEN file.doc
                                                    ELSE <<>>,
                                                    record)]]
                /\ raced' = (raced \/ (/\ other.pc = "open"
                                       /\ other.execution_record.session_id
                                            = record.session_id))
    /\ UNCHANGED <<tasks, files, dirs, stack, rv, now, uuids, faults, ops, call, seen, run, ever,
                   statusLog>>
    /\ UNCHANGED <<memVars, procVars, costVars>>

\* line 540: open(session_file, 'w') empties the file; the process writes
\* from the start of the file
WriterOpen(w) ==
    /\ writers[w].pc = "open"
    /\ sessions' = [sessions EXCEPT
                        ![SessionFile(writers[w].execution_record.session_id)] = Partial]
    /\ writers' = [writers EXCEPT ![w].pc = "dump"]
    /\ UNCHANGED <<tasks, files, dirs, stack, rv, now, uuids, faults, ops, call, seen, run, ever,
                   statusLog>>
    /\ UNCHANGED <<plans, appended, procVars, costVars, raced>>

\* The write of a store_execution that reads the file again and adds its
\* record to what the file holds
OverwrittenMerging(file, history) ==
    IF file.kind = "json"
    THEN JsonDoc(Append(file.doc, history[Len(history)]))
    ELSE JsonDoc(history)

\* What the file holds after a process has written the text of history from
\* the start of the file and closed it: the text, followed by what the file
\* held beyond the length of the text.  The file holds more than the
\* process emptied it to when the other process, which had it open too,
\* wrote in between; what is left of a longer text after the document makes
\* json.load raise.
Overwritten(file, history) ==
    IF file.kind = "json" /\ DocSize(file.doc) > DocSize(history)
    THEN Partial
    ELSE JsonDoc(history)

\* lines 541-543: json.dump writes the list, the file is closed, and the
\* call returns success
WriterDump(w) ==
    /\ writers[w].pc = "dump"
    /\ LET name == SessionFile(writers[w].execution_record.session_id)
       IN  sessions' = [sessions EXCEPT ![name] = Overwritten(@, writers[w].history)]
    /\ writers' = [writers EXCEPT ![w] =
                        [pc |-> "done", execution_record |-> @.execution_record,
                         history |-> @.history, rv |-> [success |-> TRUE]]]
    /\ UNCHANGED <<tasks, files, dirs, stack, rv, now, uuids, faults, ops, call, seen, run, ever,
                   statusLog>>
    /\ UNCHANGED <<plans, appended, procVars, costVars, raced>>

----------------------------------------------------------------------------
(* The environment: the clock, and another process that reads the store.   *)

Tick ==
    /\ now < MaxClock
    /\ now' = now + 1
    /\ UNCHANGED <<memVars, procVars, costVars, writerVars>>
    /\ UNCHANGED <<tasks, files, dirs, stack, rv, uuids, faults, ops, call, seen, run, ever,
                   statusLog>>

\* The store_task call that has opened its file and not yet written it
Writing(id) == Running("store_task", "dump") /\ Top.task_id = id

\* get_task(id) in another process, at any moment
ConcurrentGet ==
    /\ seen = None
    /\ \E id \in TaskIds :
          seen' = Some([task_id |-> id, got |-> GetTask(id),
                        writing |-> Writing(id),
                        prev |-> IF Writing(id) THEN Top.prev ELSE None,
                        new |-> IF Writing(id) THEN Some(Top.rec) ELSE None])
    /\ UNCHANGED <<memVars, procVars, costVars, writerVars>>
    /\ UNCHANGED <<tasks, files, dirs, stack, rv, now, uuids, faults, ops, call, run, ever,
                   statusLog>>

----------------------------------------------------------------------------
(* Specifications *)

\* The files there are when the engine is constructed: /etc/x and, in the
\* project, notes.txt, whose first line ends in "\r\n", and data.json, which
\* holds a JSON mapping
InitFiles ==
    [loc \in Locations |->
        IF loc = TargetPath(EtcX) THEN Text(<<"o">>)
        ELSE IF loc = TargetPath(NotesTxt) THEN Text(<<"o", "\r", "\n", "p">>)
        ELSE IF loc = TargetPath(DataJson) THEN Text(JsonText(<<"a", "1", "c", "3">>))
        ELSE Absent]

InitEngine ==
    /\ tasks = [id \in TaskIds |-> Absent]
    /\ files = InitFiles
    /\ dirs = {<<"/">>, <<"/", "etc">>, BaseDir}
    /\ stack = <<>>
    /\ rv = None
    /\ now = 0
    /\ uuids = 0
    /\ faults = 0
    /\ ops = 0
    /\ call = [op |-> "none"]
    /\ seen = None
    /\ run = NoRun
    /\ ever = {}
    /\ statusLog = [id \in TaskIds |-> <<>>]
    /\ sessions = [f \in {SessionFile(sid) : sid \in SessionIds} |-> Absent]
    /\ plans = [f \in {PlanFile(pid) : pid \in PlanIds} |-> Absent]
    /\ appended = [sid \in SessionIds |-> <<>>]
    /\ stats = NoRequests
    /\ llm_calls = 0
    /\ cost_tracker = NoOperations
    /\ project = [name \in ProjectFiles |-> Absent]
    /\ writers = [w \in Writers |-> NoCall]
    /\ raced = FALSE

\* CostOptimizedExecutor(config) with the defaults of lines 308-309
DefaultConfig == minimize_ai = TRUE /\ use_templates = TRUE

\* The engine as constructed without a generator (llm_model=None)
Init == InitEngine /\ llm_planner = FALSE /\ DefaultConfig

\* The engine as constructed with or without a generator
InitProcessor == InitEngine /\ llm_planner \in BOOLEAN /\ DefaultConfig

\* The engine with a CostOptimizedExecutor of any configuration
InitDispatcher ==
    InitEngine /\ llm_planner = FALSE /\ minimize_ai \in BOOLEAN /\ use_templates \in BOOLEAN

StoreTaskSteps == StoreOpen \/ StoreOpenFails \/ StoreDump \/ StoreDumpFails

StoreSteps == StoreTaskSteps \/ UpdateGet

ExecSteps == ExecGet \/ ExecRun \/ ExecRunFails \/ ExecRaises \/ ExecReturn

\* The executor and the store it drives
Next ==
    \/ CallStoreTask(Identified(ExecShapes))
    \/ CallExecuteTask
    \/ StoreSteps
    \/ ExecSteps

Spec == Init /\ [][Next]_vars

\* The executor on a file system and a store that raise no I/O error
NextNoFault ==
    \/ CallStoreTask(Identified(ExecShapes))
    \/ CallExecuteTask
    \/ StoreOpen \/ StoreDump \/ UpdateGet
    \/ ExecGet \/ ExecRun \/ ExecRaises \/ ExecReturn

SpecNoFault == Init /\ [][NextNoFault]_vars

\* The store alone, and its clock
NextStore ==
    \/ CallStoreTask(Identified(StoreShapes))
    \/ CallGetTask
    \/ CallUpdateTaskStatus({"executing", "completed"})
    \/ StoreSteps
    \/ Tick

SpecStore == Init /\ [][NextStore]_vars

\* The store and a reader in another process
NextReader ==
    \/ CallStoreTask(Identified(StoreShapes))
    \/ CallUpdateTaskStatus({"completed"})
    \/ StoreSteps
    \/ ConcurrentGet

SpecReader == Init /\ [][NextReader]_vars

\* The modification modes, on a file system and a store that raise no I/O
\* error
NextModes ==
    \/ CallStoreTask({WithId(r, id) : r \in ModeShapes, id \in CallerIds})
    \/ CallExecuteTask
    \/ StoreOpen \/ StoreDump \/ UpdateGet
    \/ ExecGet \/ ExecRun \/ ExecReturn

SpecModes == Init /\ [][NextModes]_vars

\* The session histories
NextMemory ==
    \/ CallStoreExecution
    \/ CallRollback
    \/ StoreExecSteps
    \/ RollbackSteps

SpecMemory == Init /\ [][NextMemory]_vars

\* The session histories and the plans, beside a store and an executor that
\* raise no I/O error
NextMemoryFrame ==
    \/ CallStoreTask({WithId(NewTask("file_creation", IndexHtml, Str(<<"h">>)), id) :
                        id \in CallerIds})
    \/ CallExecuteTask
    \/ StoreOpen \/ StoreDump \/ UpdateGet
    \/ ExecGet \/ ExecRun \/ ExecReturn
    \/ CallStoreReusablePlan(Plans)
    \/ StorePlanSteps
    \/ NextMemory

SpecMemoryFrame == Init /\ [][NextMemoryFrame]_vars

\* The processor, with or without a generator, on a store and a file
\* system that raise no I/O error
NextProcessor ==
    \/ CallProcess
    \/ ProcSteps
    \/ StoreOpen \/ StoreDump \/ UpdateGet
    \/ StoreBatchNext \/ StoreBatchCollect \/ StoreBatchReturn
    \/ ExecGet \/ ExecRun \/ ExecReturn
    \/ ExecBatchSteps

SpecProcessor == InitProcessor /\ [][NextProcessor]_vars

\* Batches of executions: the executor over lists of ids
\* Records of a batch: the two the store is given and one without a type
ExecBatchShapes ==
    StoreShapes \cup {Without(NewTask("file_creation", IndexHtml, Str(<<"h">>)), {"type"})}

NextExecBatch ==
    \/ CallStoreTask(Identified(ExecBatchShapes))
    \/ CallExecuteBatch
    \/ StoreSteps
    \/ ExecSteps
    \/ ExecBatchSteps

SpecExecBatch == Init /\ [][NextExecBatch]_vars

\* Batches of records
NextBatch ==
    \/ CallStoreBatch(BatchShapes)
    \/ CallStoreTask(Identified(StoreShapes))
    \/ StoreTaskSteps
    \/ StoreBatchNext \/ StoreBatchCollect \/ StoreBatchReturn

SpecBatch == Init /\ [][NextBatch]_vars

----------------------------------------------------------------------------
(* Properties of the executor, under Spec *)

\* execute_task has returned to its caller
ExecReturned == Idle /\ call.op = "execute_task" /\ run.result # None

\* the status values persisted for the executed id since execute_task was called
PersistedSince ==
    SubSeq(statusLog[run.task_id], run.mark + 1, Len(statusLog[run.task_id]))

\* the record was last persisted with status pending when execute_task read it
ReadPending ==
    /\ run.task # None
    /\ GetOr(run.task[1], "status", "") = "pending"
    /\ run.mark > 0
    /\ statusLog[run.task_id][run.mark] = "pending"

\* C1: execute_task on an id store_task was never called for returns the
\* not-found failure in its one step, and that step changes no task file, no
\* other file and no directory.
C1_NotFoundNoEffect ==
    [][ (Running("execute_task", "get") /\ Top.task_id \notin ever)
        => /\ stack' = Tail(stack)
           /\ rv' = NotFound
           /\ tasks' = tasks
           /\ files' = files
           /\ dirs' = dirs ]_vars

\* C1 happens: a never-stored id was executed while the store held a record
C1_Witness ==
    /\ ExecReturned
    /\ call.task_id \notin ever
    /\ rv = NotFound
    /\ \E id \in TaskIds : tasks[id].kind = "json"

\* C2: when execute_task returns for a record read as pending, the status
\* values persisted during the call are exactly executing, completed for a
\* file_creation that succeeded, and exactly executing, failed for a
\* file_modification whose target did not exist.
C2_StatusSequence ==
    (ExecReturned /\ ReadPending) =>
        /\ (GetOr(run.task[1], "type", "") = "file_creation" /\ rv.success)
              => PersistedSince = <<"executing", "completed">>
        /\ (/\ GetOr(run.task[1], "type", "") = "file_modification"
            /\ ~rv.success
            /\ rv.error = "Target file does not exist")
              => PersistedSince = <<"executing", "failed">>

Rank(status) ==
    CASE status = "pending" -> 1
      [] status = "executing" -> 2
      [] status \in {"completed", "failed"} -> 3
      [] OTHER -> 0

\* C3: the status values persisted for an id never step back: pending, then
\* executing, then completed or failed.
C3_StatusOnlyAdvances ==
    \A id \in TaskIds :
        \A i \in 1..(Len(statusLog[id]) - 1) :
            Rank(statusLog[id][i]) <= Rank(statusLog[id][i + 1])

\* C4: when execute_task returns for a record it read, the persisted record
\* has status completed or failed as the returned result says, and carries
\* that result as execution_result.
C4_FinalStatusMatchesResult ==
    (ExecReturned /\ run.task # None) =>
        LET rec == GetTask(run.task_id)
        IN  /\ rec # None
            /\ GetOr(rec[1], "status", "") = FinalStatus(rv)
            /\ Has(rec[1], "execution_result")
            /\ rec[1].execution_result = rv

\* C5: execute_task returns success only when the completed status is in the
\* store.
C5_SuccessOnlyIfPersisted ==
    (ExecReturned /\ rv.success) =>
        LET rec == GetTask(run.task_id)
        IN  rec # None /\ GetOr(rec[1], "status", "") = "completed"

Escapes(task) == Has(task, "target") /\ ~InsideRoot(TargetPath(task.target))

\* C6: no file outside the project root is ever created or changed, and
\* execute_task fails every record whose target resolves outside the root.
C6_PathEscapeRejected ==
    /\ \A loc \in Locations : ~InsideRoot(loc) => files[loc] = InitFiles[loc]
    /\ (ExecReturned /\ run.task # None /\ Escapes(run.task[1])) => ~rv.success

----------------------------------------------------------------------------
(* Properties of the store, under SpecReader, SpecStore and SpecBatch *)

\* C7: a get_task that runs while store_task has its file open returns the
\* record the file held before the call (None if it held none) or the record
\* being written.
C7_ReaderSeesWholeRecord ==
    (seen # None /\ seen[1].writing) => seen[1].got \in {seen[1].prev, seen[1].new}

\* get_task(id) was called right after a store_task that returned id
GotAfterStore ==
    /\ Idle
    /\ call.op = "get_task"
    /\ call.after.op = "store_task"
    /\ call.returned.success
    /\ call.task_id = call.returned.task_id

UpdateReturned == Idle /\ call.op = "update_task_status"

\* the record update_task_status found when it was called
Before == JsonLoad(call.before[call.task_id])

OthersUnchanged == \A id \in TaskIds \ {call.task_id} : tasks[id] = call.before[id]

\* the fields update_task_status has no reason to touch
Untouched(old, stamps) ==
    (DOMAIN old) \ ({"status", "updated_at"} \cup stamps \cup DOMAIN call.kwargs)

Updated(old, new, stamps) ==
    /\ DOMAIN new = (DOMAIN old) \cup {"status", "updated_at"} \cup DOMAIN call.kwargs
    /\ new.status = call.status
    /\ \A k \in DOMAIN call.kwargs : new[k] = call.kwargs[k]
    /\ \A k \in Untouched(old, stamps) : new[k] = old[k]

\* C9 as claimed: on a missing id update_task_status fails and leaves the
\* store as it was; on a record it sets status, updated_at and the extra
\* fields and changes no other field; it changes no other record.
C9_UpdateChangesNothingElse ==
    UpdateReturned =>
        /\ OthersUnchanged
        /\ Before = None => (~rv.success /\ tasks = call.before)
        /\ (Before # None /\ rv.success) =>
              /\ GetTask(call.task_id) # None
              /\ Updated(Before[1], GetTask(call.task_id)[1], {})

\* C9 as amended: the same, except that stored_at is stamped again by the
\* store_task call that writes the record.
C9_UpdateRestampsStoredAt ==
    UpdateReturned =>
        /\ OthersUnchanged
        /\ Before = None => (~rv.success /\ tasks = call.before)
        /\ (Before # None /\ rv.success) =>
              /\ GetTask(call.task_id) # None
              /\ Updated(Before[1], GetTask(call.task_id)[1], {"stored_at"})
              /\ GetTask(call.task_id)[1].updated_at \in Before[1].stored_at..now
              /\ GetTask(call.task_id)[1].stored_at
                    \in GetTask(call.task_id)[1].updated_at..now

\* C9 happens: a record was updated with extra fields, later than it was
\* stored, beside another record
C9_Witness ==
    /\ UpdateReturned
    /\ Before # None
    /\ rv.success
    /\ call.kwargs # EmptyDict
    /\ GetTask(call.task_id)[1].stored_at > Before[1].stored_at
    /\ \E id \in TaskIds \ {call.task_id} : tasks[id].kind = "json"

BatchReturned == Idle /\ call.op = "store_batch_tasks"

RECURSIVE IdsOfStored(_, _)
\* the ids of the records whose store_task succeeded, in submission order
IdsOfStored(attempted, results) ==
    IF results = <<>> THEN <<>>
    ELSE (IF Head(results).success THEN <<Head(attempted)>> ELSE <<>>)
         \o IdsOfStored(Tail(attempted), Tail(results))

\* no later record of the batch was written to the same file
LastForItsId(i) == \A j \in (i + 1)..Len(call.attempted) : call.attempted[j] # call.attempted[i]

----------------------------------------------------------------------------
(* Properties of execute_batch_tasks, under SpecExecBatch *)

ExecBatchReturned == Idle /\ call.op = "execute_batch_tasks"

\* the execute_task calls the operation made, in order
Runs == GetOr(call, "runs", <<>>)

Succeeded(results) == {i \in 1..Len(results) : results[i].success}

\* C11: execute_batch_tasks calls execute_task once for every id, in the
\* order given and whatever the earlier ones returned; detailed_results holds
\* the result of each call at the position of its id; tasks_executed counts
\* the successful results and tasks_failed the others.
C11_BatchExecutesInOrder ==
    ExecBatchReturned =>
        /\ rv.success
        /\ Len(rv.detailed_results) = Len(call.task_ids)
        /\ Len(Runs) = Len(call.task_ids)
        /\ \A i \in 1..Len(call.task_ids) :
              /\ Runs[i].task_id = call.task_ids[i]
              /\ Runs[i].result = Some(rv.detailed_results[i])
        /\ rv.tasks_executed + rv.tasks_failed = Len(call.task_ids)
        /\ rv.tasks_executed = Cardinality(Succeeded(rv.detailed_results))

\* C11 happens: in a list of two the first id was not found and the second
\* was executed with success
C11_Witness ==
    /\ ExecBatchReturned
    /\ Len(call.task_ids) = 2
    /\ rv.detailed_results[1] = NotFound
    /\ rv.detailed_results[2].success
    /\ rv.tasks_executed = 1
    /\ rv.tasks_failed = 1

----------------------------------------------------------------------------
(* Properties of the file operations *)

\* the status the store holds for the record being executed
PersistedStatus ==
    IF GetTask(run.task_id) = None THEN "(unreadable)"
    ELSE GetOr(GetTask(run.task_id)[1], "status", "(none)")

\* C12: every step of execute_task that creates or changes a file is taken
\* while the store holds the record with status executing.
C12_ExecutingBeforeWrite ==
    [][ files' # files => PersistedStatus = "executing" ]_vars

\* the file the executed record names, and what it held when execute_task
\* was called
Loc == TargetPath(run.task[1].target)
Original == run.files[Loc]

Modification == GetOr(run.task[1], "modification", "replace")

\* execute_task has returned from a file_modification
ModificationReturned ==
    /\ ExecReturned
    /\ run.task # None
    /\ GetOr(run.task[1], "type", "") = "file_modification"
    /\ Has(run.task[1], "target")

\* C13: a file_modification whose target does not exist fails in every mode,
\* leaves every file and directory as it was, and leaves the record with
\* status failed.
C13_MissingTargetFails ==
    (ModificationReturned /\ Original = Absent /\ Loc \notin run.dirs) =>
        /\ ~rv.success
        /\ files = run.files
        /\ dirs = run.dirs
        /\ PersistedStatus = "failed"

\* C13 happens: an update_json on a missing target has returned
C13_Witness ==
    /\ ModificationReturned
    /\ Original = Absent
    /\ Modification = "update_json"
    /\ rv.action = "modification_failed"

\* C14: after a successful replace the target holds the content; after a
\* successful append, the original followed by the content; after a
\* successful prepend, the content followed by the original.  No other file
\* is changed.
C14_ModeSemantics ==
    (ModificationReturned /\ rv.success /\ Modification \in {"replace", "append", "prepend"}) =>
        LET O == Original.text
            C == run.task[1].content.v
        IN  /\ Original.kind = "text"
            /\ files[Loc] = Text(CASE Modification = "replace" -> C
                                   [] Modification = "append" -> O \o C
                                   [] Modification = "prepend" -> C \o O)
            /\ Modification = "append" =>
                  /\ Len(files[Loc].text) = Len(O) + Len(C)
                  /\ SubSeq(files[Loc].text, 1, Len(O)) = O
            /\ \A loc \in Locations \ {Loc} : files[loc] = run.files[loc]

\* the keys of a mapping, and the value of a key it has
Keys(m) == {m[i] : i \in {j \in 1..Len(m) : j % 2 = 1}}
ValueOf(m, k) == m[(CHOOSE i \in 1..Len(m) : i % 2 = 1 /\ m[i] = k) + 1]

\* new is the shallow merge of content into old
ShallowMerge(old, content, new) ==
    /\ Keys(new) = Keys(old) \cup Keys(content)
    /\ Len(new) = 2 * Cardinality(Keys(new))
    /\ \A k \in Keys(content) : ValueOf(new, k) = ValueOf(content, k)
    /\ \A k \in Keys(old) \ Keys(content) : ValueOf(new, k) = ValueOf(old, k)

\* C15: an update_json with a mapping as content, on a target that holds a
\* JSON mapping, succeeds and leaves in the target the mapping in which the
\* keys of the content have the content's values and the other keys keep
\* theirs; on a target that holds no JSON mapping it fails, the record ends
\* with status failed and the target is as it was.
C15_StructuredMerge ==
    (/\ ModificationReturned
     /\ Modification = "update_json"
     /\ Original.kind = "text"
     /\ run.task[1].content.t = "dict") =>
        IF ParseJson(UniversalNewlines(Original.text)) # None
        THEN /\ rv.success
             /\ files[Loc].kind = "text"
             /\ ParseJson(files[Loc].text) # None
             /\ ShallowMerge(ParseJson(UniversalNewlines(Original.text))[1],
                             run.task[1].content.v,
                             ParseJson(files[Loc].text)[1])
        ELSE /\ ~rv.success
             /\ PersistedStatus = "failed"
             /\ files = run.files

\* C15 happens: a merge that changes one key, keeps one and adds one has
\* succeeded
C15_Witness ==
    /\ ModificationReturned
    /\ Modification = "update_json"
    /\ rv.success
    /\ LET old == ParseJson(UniversalNewlines(Original.text))[1]
           content == run.task[1].content.v
       IN  /\ \E k \in Keys(old) \cap Keys(content) : ValueOf(old, k) # ValueOf(content, k)
           /\ Keys(old) \ Keys(content) # {}
           /\ Keys(content) \ Keys(old) # {}

----------------------------------------------------------------------------
(* Properties of TaskMemory, under SpecMemory *)

RollbackReturned == Idle /\ call.op = "rollback_to_state"

\* the history of a session as get_session_history gave it when the
\* operation was called
HistoryBefore(session_id) ==
    IF call.before.sessions[SessionFile(session_id)].kind = "json"
    THEN call.before.sessions[SessionFile(session_id)].doc
    ELSE <<>>

\* the positions of the entries of a task in a history
EntriesOf(history, task_id) == {i \in 1..Len(history) : history[i].task_id = task_id}

\* C16: when the history of the session has an entry of the target task,
\* rollback_to_state succeeds, the history it leaves is the old one up to
\* and including the first such entry, and states_removed is the number of
\* entries after it; when there is none, it fails and the session file is
\* as it was.
C16_RollbackTruncates ==
    RollbackReturned =>
        LET old == HistoryBefore(call.session_id)
            at == EntriesOf(old, call.target_task_id)
        IN  IF at # {}
            THEN LET k == CHOOSE i \in at : \A j \in at : i <= j
                 IN  /\ rv.success
                     /\ GetSessionHistory(call.session_id) = SubSeq(old, 1, k)
                     /\ sessions[SessionFile(call.session_id)].kind = "json"
                     /\ rv.states_removed = Len(old) - k
            ELSE /\ ~rv.success
                 /\ sessions = call.before.sessions

\* C16 happens: the target task has two entries, the first of them is not
\* the first entry of the history, and the rollback removed entries
C16_Witness ==
    /\ RollbackReturned
    /\ rv.success
    /\ Cardinality(EntriesOf(HistoryBefore(call.session_id), call.target_task_id)) = 2
    /\ Len(GetSessionHistory(call.session_id)) = 2
    /\ rv.states_removed = 1

StoreExecReturned == Idle /\ call.op = "store_execution"

\* C17: a store_execution that returns success leaves the history of the
\* entry's session as it was with the entry added at the end; and whenever
\* no operation is running, the history of every session is the sequence of
\* the entries stored with success since the session was last rolled back
\* (from the entries the rollback kept).
C17_HistoryIsAppendOnly ==
    /\ (StoreExecReturned /\ rv.success) =>
          GetSessionHistory(call.execution_record.session_id)
             = Append(HistoryBefore(call.execution_record.session_id), call.execution_record)
    /\ Idle => \A sid \in SessionIds : GetSessionHistory(sid) = appended[sid]

\* C18: when rollback_to_state returns, every task file, every other file,
\* every directory, every plan file and the file of every other session is
\* as it was when rollback_to_state was called.
C18_RollbackFrame ==
    RollbackReturned =>
        /\ tasks = call.before.tasks
        /\ files = call.before.files
        /\ dirs = call.before.dirs
        /\ plans = call.before.plans
        /\ \A sid \in SessionIds \ {call.session_id} :
              sessions[SessionFile(sid)] = call.before.sessions[SessionFile(sid)]

\* C18 happens: a rollback removed entries while the store held a completed
\* record, the executor had written a file, a plan was stored and another
\* session had a history
C18_Witness ==
    /\ RollbackReturned
    /\ rv.success
    /\ rv.states_removed > 0
    /\ \E id \in TaskIds : GetTask(id) # None /\ GetTask(id)[1].status = "completed"
    /\ files # InitFiles
    /\ \E f \in DOMAIN plans : plans[f].kind = "json"
    /\ \E sid \in SessionIds \ {call.session_id} : GetSessionHistory(sid) # <<>>

----------------------------------------------------------------------------
(* Properties of the processor, under SpecProcessor *)

ProcessReturned == Idle /\ call.op = "process_user_request"

\* the ids of the records stored since process_user_request was called
NewRecords == {id \in TaskIds : call.before.tasks[id] = Absent /\ tasks[id] # Absent}

\* C19: for a request that needs the generator, a processor without one
\* returns a failure with an error, calls no generator, and leaves every task
\* file, every other file and every directory as it was.
C19_NoGeneratorFails ==
    (ProcessReturned /\ ShouldUseLlm(call.user_request) /\ ~llm_planner) =>
        /\ rv # None
        /\ ~rv.success
        /\ Has(rv, "error")
        /\ llm_calls = call.calls
        /\ tasks = call.before.tasks
        /\ files = call.before.files
        /\ dirs = call.before.dirs

\* C20: for a request that needs no generator, process_user_request calls
\* none; when the request also contains "create" and "html", exactly one
\* record has been stored when it returns, a file_creation of index.html
\* with status completed and an execution_result whose action is
\* file_created, and no other record is changed.
C20_RuleBasedPath ==
    (ProcessReturned /\ ~ShouldUseLlm(call.user_request)) =>
        /\ llm_calls = call.calls
        /\ RuleMatches(call.user_request) =>
              /\ Cardinality(NewRecords) = 1
              /\ \A id \in TaskIds \ NewRecords : tasks[id] = call.before.tasks[id]
              /\ \A id \in NewRecords :
                    /\ GetTask(id) # None
                    /\ GetTask(id)[1].type = "file_creation"
                    /\ GetTask(id)[1].target = IndexHtml
                    /\ GetTask(id)[1].status = "completed"
                    /\ Has(GetTask(id)[1], "execution_result")
                    /\ GetTask(id)[1].execution_result.action = "file_created"
                    /\ files[TargetPath(IndexHtml)] = Text(HtmlTemplate.v)

\* C20 happens: the request of the scenario was processed by a processor
\* that has a generator, after another request went to the generator
C20_Witness ==
    /\ ProcessReturned
    /\ call.user_request = CreateSimpleHtml
    /\ llm_planner
    /\ llm_calls > 0
    /\ rv.success
    /\ rv.execution_result.action = "file_created"

----------------------------------------------------------------------------
(* The processor on a store whose writes can raise an I/O error *)

NextProcessorFaults ==
    \/ CallProcess
    \/ ProcSteps
    \/ StoreTaskSteps \/ UpdateGet
    \/ StoreBatchNext \/ StoreBatchCollect \/ StoreBatchReturn
    \/ ExecGet \/ ExecRun \/ ExecReturn
    \/ ExecBatchSteps

SpecProcessorFaults == InitProcessor /\ [][NextProcessorFaults]_vars

\* C21: whenever process_user_request has returned, what it returned is a
\* result that carries a success flag, whatever the request, the plan of the
\* generator and the outcome of the store's writes.
C21_AlwaysAResult ==
    ProcessReturned => Has(rv, "success")

\* the records stored since process_user_request was called that the
\* executor has run to an end
StoredAndExecuted ==
    {id \in NewRecords : GetTask(id) # None /\ GetTask(id)[1].status \in {"completed", "failed"}}

\* C22: when process_user_request has returned, the history of some session
\* holds an entry of every record that it stored and executed.
C22_HistoryEntryAppended ==
    ProcessReturned =>
        \A id \in StoredAndExecuted :
            \E sid \in SessionIds :
                \E i \in 1..Len(GetSessionHistory(sid)) : GetSessionHistory(sid)[i].task_id = id

----------------------------------------------------------------------------
(* The result of execute_task, under SpecNoFault *)

\* the values the action of an execution result takes
ExecutionActions ==
    {"file_created", "file_modified", "creation_failed", "modification_failed", "error"}

\* C23: when execute_task returns, with the rollback flag or without it, its
\* result carries an action that is one of file_created, file_modified,
\* creation_failed, modification_failed and error, and that is the action of
\* the result the file operation gave, which is the one persisted in the
\* record as its execution_result.
C23_ActionIsOneOfFive ==
    ExecReturned =>
        /\ Has(rv, "action")
        /\ rv.action \in ExecutionActions
        /\ (GetTask(call.task_id) # None /\ Has(GetTask(call.task_id)[1], "execution_result"))
              => GetOr(GetTask(call.task_id)[1].execution_result, "action", "") = rv.action

----------------------------------------------------------------------------
(* The classifier and the dispatcher *)

\* The two keyword rules alone, on every text of up to MaxWords words
NextClassifier == Describe \/ CallParseTaskType \/ CallShouldUseLlm

SpecClassifier == Init /\ [][NextClassifier]_vars

\* The CostOptimizedExecutor of any configuration and its statistics, on a
\* project directory whose files may fail to open
NextDispatcher ==
    \/ CallCostOptimizedExecute
    \/ CallGetCostStatistics

SpecDispatcher == InitDispatcher /\ [][NextDispatcher]_vars

----------------------------------------------------------------------------
(* Properties of the classifier, under SpecClassifier *)

\* two characters are the same letter, in either case
SameLetter(a, b) == a = b \/ \E n \in 1..26 : {a, b} = {UpperCase[n], LowerCase[n]}

\* the description has one of the keywords in it, in any mix of cases
Mentions(description, keywords) ==
    \E n \in 1..Len(keywords) :
        \E i \in 0..(Len(description) - Len(keywords[n])) :
            \A j \in 1..Len(keywords[n]) : SameLetter(description[i + j], keywords[n][j])

Classified == call.op = "parse_task_type"

\* C24: parse_task_type gives file_creation for a description that has a
\* creation keyword in it in any mix of cases; otherwise file_modification
\* when it has a modification keyword; otherwise ai_reasoning when it has a
\* reasoning keyword; otherwise unknown.
C24_ClassifierPrecedence ==
    Classified =>
        rv = IF Mentions(call.task_description, creation_keywords) THEN "file_creation"
             ELSE IF Mentions(call.task_description, modification_keywords)
             THEN "file_modification"
             ELSE IF Mentions(call.task_description, reasoning_keywords) THEN "ai_reasoning"
             ELSE "unknown"

\* C24 happens: a description that begins with a modification keyword in
\* upper case and goes on with a creation keyword not in lower case is a
\* file_creation
C24_Witness ==
    /\ Classified
    /\ Len(call.task_description) > 6
    /\ SubSeq(call.task_description, 1, 6) = <<"U", "P", "D", "A", "T", "E">>
    /\ Mentions(call.task_description, creation_keywords)
    /\ ~AnyIn(creation_keywords, call.task_description)
    /\ rv = "file_creation"

\* C25: should_use_llm is true for a request that has a creative keyword in
\* it, in any mix of cases, whether or not it has a simple keyword too; false
\* for a request that has a simple keyword and no creative one; and true for
\* a request that has neither.
C25_CreativeBeforeSimple ==
    call.op = "should_use_llm" =>
        rv = IF Mentions(call.request, creative_keywords) THEN TRUE
             ELSE IF Mentions(call.request, simple_keywords) THEN FALSE
             ELSE TRUE

\* C25 happens: a request with a simple keyword and a creative keyword, the
\* creative one not in lower case, needs the generator
C25_Witness ==
    /\ call.op = "should_use_llm"
    /\ Mentions(call.request, simple_keywords)
    /\ Mentions(call.request, creative_keywords)
    /\ ~(\E n \in 1..Len(creative_keywords) : Contains(call.request, creative_keywords[n]))
    /\ rv = TRUE

----------------------------------------------------------------------------
(* Properties of the plan templates, under SpecPlans *)

\* The reusable plans and their templates
NextPlans ==
    \/ CallStoreReusablePlan(TemplatePlans)
    \/ StorePlanSteps
    \/ CallApplyPlanTemplate

SpecPlans == Init /\ [][NextPlans]_vars

ApplyReturned == Idle /\ call.op = "apply_plan_template"

\* the stored plans that have the pattern
PlansWith(pattern) ==
    {plans[f].doc : f \in {g \in DOMAIN plans : plans[g].kind = "json"
                                                /\ GetOr(plans[g].doc, "pattern", "") = pattern}}

\* the supplied variables whose placeholder the text begins with
Beginning(text, variables) ==
    {i \in 1..Len(variables) :
        /\ Len(text) >= Len(variables[i].name) + 2
        /\ SubSeq(text, 1, Len(variables[i].name) + 2) = <<"{">> \o variables[i].name \o <<"}">>}

RECURSIVE Instantiated(_, _)
\* the text with every placeholder of a supplied variable replaced by the
\* value of the variable, and everything else as it is
Instantiated(text, variables) ==
    IF text = <<>> THEN <<>>
    ELSE IF Beginning(text, variables) # {}
    THEN LET i == CHOOSE i \in Beginning(text, variables) : TRUE
         IN  variables[i].value
                \o Instantiated(SubSeq(text, Len(variables[i].name) + 3, Len(text)), variables)
    ELSE <<Head(text)>> \o Instantiated(Tail(text), variables)

\* C26: apply_plan_template returns None exactly when no stored plan has the
\* pattern; otherwise it returns the template of a stored plan with the
\* pattern, in which every str field has the placeholder of every supplied
\* variable replaced by the value of the variable and everything else,
\* placeholders of other variables included, as it is, and every other field
\* is as it is; the plan files are as they were.
C26_TemplateInstantiated ==
    ApplyReturned =>
        /\ (DOMAIN rv = {} /\ rv = None) <=> (PlansWith(call.pattern) = {})
        /\ PlansWith(call.pattern) # {} =>
              \E plan \in PlansWith(call.pattern) :
                  /\ DOMAIN rv = DOMAIN plan.template
                  /\ \A key \in DOMAIN plan.template :
                        rv[key] = IF plan.template[key].t = "str"
                                  THEN Str(Instantiated(plan.template[key].v, call.variables))
                                  ELSE plan.template[key]
        /\ plans = call.before.plans

----------------------------------------------------------------------------
(* Properties of the dispatcher, under SpecDispatcher *)

StatisticsReturned == Idle /\ call.op = "get_cost_statistics"

\* h hundredths is a nearest number of hundredths to num / den * 100
NearestPercentage(h, num, den) ==
    /\ 2 * (h * den - num * 10000) <= den
    /\ 2 * (num * 10000 - h * den) <= den

RECURSIVE Tokens(_, _)
\* the tokens of the recorded operations: those saved by the operations
\* without AI, or those used by the operations with AI
Tokens(operations, used_ai) ==
    IF operations = <<>> THEN 0
    ELSE Tokens(Tail(operations), used_ai)
            + (IF Head(operations).used_ai # used_ai THEN 0
               ELSE IF used_ai THEN Head(operations).tokens_used
               ELSE Head(operations).tokens_saved)

ExecutorReturned == Idle /\ call.op = ExecutorTask

\* C28: when the executor returns from a task that fell back to the AI (its
\* kind is unknown, or the configuration turns its template or rule path
\* off), the statistics count one operation more and one operation with AI
\* more than when it was called, and the same tokens saved.
C28_FallbackIsRecorded ==
    (ExecutorReturned /\ FallsBack(call.task)) =>
        LET before == get_statistics(call.before)
            after == get_statistics(cost_tracker)
        IN  /\ after.total_operations = before.total_operations + 1
            /\ after.ai_operations = before.ai_operations + 1
            /\ after.tokens_saved = before.tokens_saved

----------------------------------------------------------------------------
(* Two processes that call store_execution side by side *)

NextWriters ==
    \E w \in Writers : WriterCall(w) \/ WriterLoad(w) \/ WriterOpen(w) \/ WriterDump(w)

SpecWriters == Init /\ [][NextWriters]_vars

\* Both calls have returned, and both had read the history of one session
\* before either had opened the file to write
BothReturned == raced /\ \A w \in Writers : writers[w].pc = "done"

\* what get_session_history gives for the session the two calls wrote
Persisted == GetSessionHistory(writers["w1"].execution_record.session_id)

\* C29 (as stated): when two store_execution calls for one session both read
\* the history before either writes it back, both return success and the
\* persisted history is what was read with one of the two new entries added.
C29_OneEntryKept ==
    BothReturned =>
        /\ \A w \in Writers : writers[w].rv = [success |-> TRUE]
        /\ \E w \in Writers : Persisted = writers[w].history

\* C29 (amended): when two store_execution calls for one session both read
\* the history before either writes it back, both return success and the
\* session file holds what was read with one of the two new entries added,
\* or a text json.load rejects, for which the persisted history is empty:
\* never the two new entries.
C29_AtMostOneEntryKept ==
    BothReturned =>
        /\ \A w \in Writers : writers[w].rv = [success |-> TRUE]
        /\ LET file == sessions[SessionFile(writers["w1"].execution_record.session_id)]
           IN  \/ \E w \in Writers : file = JsonDoc(writers[w].history)
               \/ file = Partial /\ Persisted = <<>>

\* two calls that stored different entries have returned success after the
\* race and the history holds the entry of the first only, after one entry
\* stored before
C29_Witness ==
    /\ BothReturned
    /\ \A w \in Writers : writers[w].rv = [success |-> TRUE]
    /\ writers["w1"].execution_record # writers["w2"].execution_record
    /\ Len(Persisted) = 2
    /\ Persisted = writers["w1"].history

----------------------------------------------------------------------------
(* What execute_task changes in the store, on a file system that raises no  *)
(* I/O error                                                                *)

\* Records whose target is an ordinary file, and records whose target is
\* the file of a record of the store
FrameShapes ==
    { NewTask("file_creation", IndexHtml, Str(<<"h">>)),
      Appending(NewTask("file_modification", IndexHtml, Str(<<"c">>))),
      NewTask("file_creation", RecordTarget(<<"id", 1>>), Str(<<"h">>)) }

NextFrame ==
    \/ CallStoreTask(Identified(FrameShapes))
    \/ CallExecuteTask
    \/ StoreOpen \/ StoreDump \/ UpdateGet
    \/ ExecGet \/ ExecRun \/ ExecRunInStore \/ ExecReturn

SpecFrame == Init /\ [][NextFrame]_vars

\* the fields execute_task keeps for its bookkeeping
Bookkeeping == {"status", "stored_at", "updated_at", "execution_result"}

\* the two task files hold records that differ in the bookkeeping at most
SameButBookkeeping(before, after) ==
    /\ before.kind = "json"
    /\ after.kind = "json"
    /\ DOMAIN before.doc \ Bookkeeping = DOMAIN after.doc \ Bookkeeping
    /\ \A key \in DOMAIN before.doc \ Bookkeeping : after.doc[key] = before.doc[key]

\* C30: when execute_task returns for a record it found, that record has the
\* id, type, target, content and modification (every field but status,
\* stored_at, updated_at and execution_result) it had when the call was
\* made, and the file of every other record is as it was.
C30_ExecuteChangesBookkeepingOnly ==
    (Idle /\ call.op = "execute_task" /\ run.task # None) =>
        /\ SameButBookkeeping(run.tasks[call.task_id], tasks[call.task_id])
        /\ \A id \in TaskIds \ {call.task_id} :
              run.tasks[id].kind = "json" => tasks[id] = run.tasks[id]

====
